---- MODULE Spec2Model ----
(***************************************************************************)
(* Model of simple-ddl-generator/app.py: the SQL field parser              *)
(* (parse_sql_fields and its helpers), the type inferencer                 *)
(* (infer_field_type), the dialect type mapper (map_data_type), the DDL    *)
(* renderer (generate_ddl, generate_multiple_ddls) and the request handler *)
(* APIHandler.do_POST.                                                     *)
(*                                                                         *)
(* Text is modelled by TLA+ strings; a character is a string of length 1.  *)
(* The module text is ASCII only, so the CJK literals of the source are    *)
(* written as bracketed ASCII stand-ins (see TABLE_NAME and the MSG_ and   *)
(* CJK_ definitions).                                                      *)
(***************************************************************************)
EXTENDS Integers, Sequences, FiniteSets, TLC

VARIABLES
    pc,        \* position of the operation being modelled
    arg,       \* argument of a pure function under check
    ret,       \* its return value
    request,   \* decoded JSON body of a POST /api/generate-ddl request
    fields,    \* do_POST's local `fields`
    response   \* what do_POST wrote back

vars == <<pc, arg, ret, request, fields, response>>

(***************************************************************************)
(* Python str primitives.                                                  *)
(***************************************************************************)
Ch(s, i) == SubSeq(s, i, i)

LowerCs == "abcdefghijklmnopqrstuvwxyz"
UpperCs == "ABCDEFGHIJKLMNOPQRSTUVWXYZ"
Digits  == "0123456789"

LowerSet == {Ch(LowerCs, i) : i \in 1..26}
UpperSet == {Ch(UpperCs, i) : i \in 1..26}
DigitSet == {Ch(Digits, i) : i \in 1..10}

\* str.isspace() for one character
IsSpace(c) == c \in {" ", "\n", "\t", "\r"}

\* \w of the re module (ASCII part)
IsWordCh(c) == c \in LowerSet \cup UpperSet \cup DigitSet \cup {"_"}

UpperCh(c) ==
    IF c \in LowerSet
    THEN Ch(UpperCs, CHOOSE i \in 1..26 : Ch(LowerCs, i) = c)
    ELSE c

LowerCh(c) ==
    IF c \in UpperSet
    THEN Ch(LowerCs, CHOOSE i \in 1..26 : Ch(UpperCs, i) = c)
    ELSE c

\* str.upper() and str.lower(), halving the string so that the evaluation
\* stays shallow
RECURSIVE Upper(_)
Upper(s) ==
    IF Len(s) = 0 THEN ""
    ELSE IF Len(s) = 1 THEN UpperCh(s)
    ELSE Upper(SubSeq(s, 1, Len(s) \div 2))
         \o Upper(SubSeq(s, Len(s) \div 2 + 1, Len(s)))

RECURSIVE Lower(_)
Lower(s) ==
    IF Len(s) = 0 THEN ""
    ELSE IF Len(s) = 1 THEN LowerCh(s)
    ELSE Lower(SubSeq(s, 1, Len(s) \div 2))
         \o Lower(SubSeq(s, Len(s) \div 2 + 1, Len(s)))

\* s[i:] and s[:i] with 1-based positions: Drop(s, n) removes the first n
\* characters, Take(s, n) keeps them.
Drop(s, n) == IF n >= Len(s) THEN "" ELSE IF n <= 0 THEN s ELSE SubSeq(s, n + 1, Len(s))
Take(s, n) == IF n <= 0 THEN "" ELSE SubSeq(s, 1, IF n > Len(s) THEN Len(s) ELSE n)

Min(S) == CHOOSE x \in S : \A y \in S : x <= y
Max(S) == CHOOSE x \in S : \A y \in S : x >= y

\* s.startswith(p) at 1-based position i
MatchAt(s, i, p) ==
    /\ i >= 1
    /\ i + Len(p) - 1 <= Len(s)
    /\ SubSeq(s, i, i + Len(p) - 1) = p

StartsWith(s, p) == MatchAt(s, 1, p)
EndsWith(s, p) == MatchAt(s, Len(s) - Len(p) + 1, p)

\* s.find(p, from): the least 1-based position >= from where p occurs, 0 if none
FindFrom(s, p, from) ==
    LET at == {i \in from..(Len(s) - Len(p) + 1) : MatchAt(s, i, p)} IN
    IF at = {} THEN 0 ELSE Min(at)

Find(s, p) == FindFrom(s, p, 1)

\* p in s
Contains(s, p) == \E i \in 1..(Len(s) - Len(p) + 1) : MatchAt(s, i, p)

\* positions of the characters of s that are not whitespace
NonSpaceAt(s) == {i \in 1..Len(s) : ~IsSpace(Ch(s, i))}

\* str.strip()
Strip(s) ==
    LET ns == NonSpaceAt(s) IN
    IF ns = {} THEN "" ELSE SubSeq(s, Min(ns), Max(ns))

\* str.lstrip(chars) and str.strip(chars) for a set of characters
LStripChars(s, cs) ==
    LET keep == {i \in 1..Len(s) : Ch(s, i) \notin cs} IN
    IF keep = {} THEN "" ELSE SubSeq(s, Min(keep), Len(s))

StripChars(s, cs) ==
    LET keep == {i \in 1..Len(s) : Ch(s, i) \notin cs} IN
    IF keep = {} THEN "" ELSE SubSeq(s, Min(keep), Max(keep))

\* str.ljust(width)
RECURSIVE Spaces(_)
Spaces(n) ==
    IF n <= 0 THEN ""
    ELSE IF n = 1 THEN " "
    ELSE Spaces(n \div 2) \o Spaces(n - n \div 2)

LJust(s, width) == s \o Spaces(width - Len(s))

\* sep.join(parts)
RECURSIVE JoinFrom(_, _, _)
JoinFrom(parts, sep, i) ==
    IF i > Len(parts) THEN ""
    ELSE IF i = Len(parts) THEN parts[i]
    ELSE parts[i] \o sep \o JoinFrom(parts, sep, i + 1)

Join(parts, sep) == JoinFrom(parts, sep, 1)

\* str.split(sep) for a one-character separator
RECURSIVE SplitOn(_, _)
SplitOn(s, sep) ==
    LET p == Find(s, sep) IN
    IF p = 0 THEN <<s>>
    ELSE <<Take(s, p - 1)>> \o SplitOn(Drop(s, p), sep)

\* str.split(): maximal runs of non-whitespace
RECURSIVE SplitWs(_)
SplitWs(s) ==
    LET ns == NonSpaceAt(s) IN
    IF ns = {} THEN <<>>
    ELSE LET b == Min(ns)
             sp == {i \in b..Len(s) : IsSpace(Ch(s, i))}
             e == IF sp = {} THEN Len(s) ELSE Min(sp) - 1
         IN  <<SubSeq(s, b, e)>> \o SplitWs(Drop(s, e))

\* str(n) for n >= 0
RECURSIVE IntToStr(_)
IntToStr(n) ==
    IF n < 10 THEN Ch(Digits, n + 1)
    ELSE IntToStr(n \div 10) \o Ch(Digits, (n % 10) + 1)

(***************************************************************************)
(* split_fields.  The loop state is <<field_expressions, current,          *)
(* paren_count>>; the loop runs over the characters lo..hi, halving the    *)
(* range so that the evaluation stays shallow.                             *)
(***************************************************************************)
\* the loop step with every comma treated as a separator
SplitStep_AnyDepth(st, char) ==
    IF char = "(" THEN <<st[1], st[2] \o char, st[3] + 1>>
    ELSE IF char = ")" THEN <<st[1], st[2] \o char, st[3] - 1>>
    ELSE IF char = "," THEN <<Append(st[1], Strip(st[2])), "", st[3]>>
    ELSE <<st[1], st[2] \o char, st[3]>>

\* the body of the for loop (lines 172-182)
SplitStep(st, char) ==
    IF char = "(" THEN <<st[1], st[2] \o char, st[3] + 1>>
    ELSE IF char = ")" THEN <<st[1], st[2] \o char, st[3] - 1>>
    ELSE IF char = "," /\ st[3] = 0 THEN <<Append(st[1], Strip(st[2])), "", st[3]>>
    ELSE <<st[1], st[2] \o char, st[3]>>

RECURSIVE SplitLoop(_, _, _, _)
SplitLoop(s, lo, hi, st) ==
    IF lo > hi THEN st
    ELSE IF lo = hi THEN SplitStep(st, Ch(s, lo))
    ELSE LET left == SplitLoop(s, lo, (lo + hi) \div 2, st) IN
         \* the test evaluates the first half before the second half starts
         IF left = left THEN SplitLoop(s, (lo + hi) \div 2 + 1, hi, left) ELSE left

\* the splitter with the trailing text tested after trimming
split_fields_TrimmedTail(select_clause) ==
    LET st == SplitLoop(select_clause, 1, Len(select_clause), <<<<>>, "", 0>>) IN
    IF Strip(st[2]) # "" THEN Append(st[1], Strip(st[2])) ELSE st[1]

split_fields(select_clause) ==
    LET st == SplitLoop(select_clause, 1, Len(select_clause), <<<<>>, "", 0>>) IN
    IF st[2] # "" THEN Append(st[1], Strip(st[2])) ELSE st[1]

(***************************************************************************)
(* Regular expressions of the parser, each modelled by what re does with   *)
(* it.                                                                     *)
(***************************************************************************)
\* re.search(r'\bKW\b', s, re.IGNORECASE) for an upper-case literal KW whose
\* first and last characters are word characters: the 1-based start of the
\* leftmost match, 0 when there is none.
WordMatchAt(s, kw, i) ==
    /\ Upper(SubSeq(s, i, i + Len(kw) - 1)) = kw
    /\ (i = 1 \/ ~IsWordCh(Ch(s, i - 1)))
    /\ (i + Len(kw) > Len(s) \/ ~IsWordCh(Ch(s, i + Len(kw))))

WordSearch(s, kw) ==
    LET at == {i \in 1..(Len(s) - Len(kw) + 1) : WordMatchAt(s, kw, i)} IN
    IF at = {} THEN 0 ELSE Min(at)

\* one line with everything from its first "--" on removed
CutLineComment(line) ==
    LET p == Find(line, "--") IN IF p = 0 THEN line ELSE Take(line, p - 1)

\* re.sub(r'--.*$', '', s, flags=re.MULTILINE): "." stops at a line break and
\* "$" matches before one, so every line loses its "--" tail and keeps its
\* line break.
StripLineComments(s) ==
    LET lines == SplitOn(s, "\n") IN
    Join([k \in 1..Len(lines) |-> CutLineComment(lines[k])], "\n")

\* re.sub(r'/\*.*?\*/', '', s, flags=re.DOTALL): leftmost, shortest,
\* non-overlapping; an opener with no closer after it is left in place.
RECURSIVE StripBlockComments(_)
StripBlockComments(s) ==
    LET p == Find(s, "/*") IN
    IF p = 0 THEN s
    ELSE LET q == FindFrom(s, "*/", p + 2) IN
         IF q = 0 THEN s
         ELSE Take(s, p - 1) \o StripBlockComments(Drop(s, q + 1))

\* end (exclusive) of the whitespace run that starts at i
SkipSpaces(s, i) ==
    LET ns == {j \in i..Len(s) : ~IsSpace(Ch(s, j))} IN
    IF ns = {} THEN Len(s) + 1 ELSE Min(ns)

DistinctAt(s, i) ==
    /\ i + 8 <= Len(s)
    /\ Upper(SubSeq(s, i, i + 7)) = "DISTINCT"
    /\ (i = 1 \/ ~IsWordCh(Ch(s, i - 1)))
    /\ IsSpace(Ch(s, i + 8))

\* re.sub(r'\bDISTINCT\s+', '', s, flags=re.IGNORECASE): the matches are
\* removed left to right, each with the whitespace after it
RECURSIVE RemoveDistinctFrom(_, _)
RemoveDistinctFrom(s, from) ==
    LET at == {i \in from..Len(s) : DistinctAt(s, i)} IN
    IF at = {} THEN Drop(s, from - 1)
    ELSE SubSeq(s, from, Min(at) - 1)
         \o RemoveDistinctFrom(s, SkipSpaces(s, Min(at) + 8))

RemoveDistinct(s) == RemoveDistinctFrom(s, 1)

\* start of the run of non-whitespace characters that ends at j (j + 1 when
\* s[j] is whitespace)
TokenStart(s, j) ==
    LET sp == {k \in 1..j : IsSpace(Ch(s, k))} IN
    IF sp = {} THEN 1 ELSE Max(sp) + 1

\* last position before the whitespace run that ends at j (0 when the run
\* starts the string)
BeforeSpaces(s, j) ==
    LET ns == {k \in 1..j : ~IsSpace(Ch(s, k))} IN
    IF ns = {} THEN 0 ELSE Max(ns)

\* re.search(r'\s+AS\s+([^\s,]+)$', expr, re.IGNORECASE) on a stripped expr:
\* <<>> when there is no match, else <<[main |-> expr[:match.start()],
\* token |-> match.group(1)]>>.  The token is the last run of non-whitespace
\* characters and must hold no comma; before it whitespace, "AS", whitespace.
AliasWithAs(expr, t, a) ==
    IF /\ Len(expr) >= 1
       /\ t <= Len(expr)
       /\ ~Contains(SubSeq(expr, t, Len(expr)), ",")
       /\ a < t - 1
       /\ a >= 3
       /\ Upper(SubSeq(expr, a - 1, a)) = "AS"
       /\ IsSpace(Ch(expr, a - 2))
    THEN <<[main |-> Take(expr, BeforeSpaces(expr, a - 2)),
            token |-> SubSeq(expr, t, Len(expr))]>>
    ELSE <<>>

AliasWithToken(expr, t) == AliasWithAs(expr, t, BeforeSpaces(expr, t - 1))

AliasSearch(expr) == AliasWithToken(expr, TokenStart(expr, Len(expr)))

\* re.search(r'--\s*(.+)$', line) on one line (no line break in it): the match
\* starts at the first "--" and needs a character after it; <<>> when there is
\* none, else <<[start |-> 1-based match start, comment |-> group(1).strip()]>>.
CommentSearch(line) ==
    LET p == Find(line, "--") IN
    IF p > 0 /\ p + 2 <= Len(line)
    THEN <<[start |-> p, comment |-> Strip(Drop(line, p + 1))]>>
    ELSE <<>>

(***************************************************************************)
(* parse_field_expression.  An optional value (None or a value) is a       *)
(* sequence of length 0 or 1; comment_map is the sequence of its           *)
(* assignments <<key, comment>>, the last one for a key being its value.   *)
(***************************************************************************)
RECURSIVE MapGetFrom(_, _, _, _)
MapGetFrom(comment_map, key, default, i) ==
    IF i < 1 THEN default
    ELSE IF comment_map[i][1] = key THEN comment_map[i][2]
    ELSE MapGetFrom(comment_map, key, default, i - 1)

\* dict.get(key, default)
MapGet(comment_map, key, default) ==
    MapGetFrom(comment_map, key, default, Len(comment_map))

ALIAS_GUARD_OPS == {"(", "+", "-", "*", "/", "="}
\* the test for an operator made on the last token
ImplicitAlias_GuardOnLast(expr, parts) ==
    IF Len(parts) > 1
    THEN IF ~(\E op \in ALIAS_GUARD_OPS : Contains(parts[Len(parts)], op))
         THEN <<Join(SubSeq(parts, 1, Len(parts) - 1), " "),
                <<StripChars(parts[Len(parts)], {"'", "\""})>> >>
         ELSE <<expr, <<>> >>
    ELSE <<expr, <<>> >>

\* lines 208-219: no AS; parts is expr.split()
ImplicitAlias(expr, parts) ==
    IF Len(parts) > 1
    THEN IF ~(\E op \in ALIAS_GUARD_OPS : Contains(parts[Len(parts) - 1], op))
         THEN <<Join(SubSeq(parts, 1, Len(parts) - 1), " "),
                <<StripChars(parts[Len(parts)], {"'", "\""})>> >>
         ELSE <<expr, <<>> >>
    ELSE <<expr, <<>> >>

\* lines 203-219: <<name, alias>> for the result of the alias regex
AliasFromMatch(expr, alias_match) ==
    IF alias_match # <<>>
    THEN <<Strip(alias_match[1].main),
           <<StripChars(alias_match[1].token, {"'", "\""})>> >>
    ELSE ImplicitAlias(expr, SplitWs(expr))

\* lines 202-219: <<name, alias>>
ResolveAlias(expr) == AliasFromMatch(expr, AliasSearch(expr))

\* lines 221-224
FieldRecord(name, alias, field_name, comment_map) ==
    <<[name |-> field_name, alias |-> alias,
       comment |-> MapGet(comment_map, name, field_name)]>>

\* line 221: field_name = alias or name
NamedField(name, alias, comment_map) ==
    FieldRecord(name, alias,
                IF alias # <<>> /\ alias[1] # "" THEN alias[1] ELSE name,
                comment_map)

\* lines 197-224 on the stripped expression
ParseStripped(expr, comment_map, name_alias) ==
    IF Contains(Upper(expr), "SELECT") \/ Contains(Upper(expr), " FROM ")
    THEN <<>>
    ELSE NamedField(name_alias[1], name_alias[2], comment_map)

parse_field_expression(expr0, comment_map) ==
    ParseStripped(Strip(expr0), comment_map,
                  ResolveAlias(RemoveDistinct(Strip(expr0))))

\* "for expr in field_expressions: field = parse_field_expression(...); if
\* field: fields.append(field)"
RECURSIVE ParseEach(_, _, _)
ParseEach(field_expressions, comment_map, i) ==
    IF i > Len(field_expressions) THEN <<>>
    ELSE parse_field_expression(field_expressions[i], comment_map)
         \o ParseEach(field_expressions, comment_map, i + 1)

(***************************************************************************)
(* parse_select_clause                                                     *)
(***************************************************************************)
\* the loop over lines that fills comment_map (lines 142-149)
RECURSIVE BuildCommentMap(_, _)
BuildCommentMap(lines, i) ==
    IF i > Len(lines) THEN <<>>
    ELSE LET match == CommentSearch(lines[i])
             field_part == Strip(Take(lines[i], match[1].start - 1))
             normalized_key == Strip(LStripChars(field_part, {","}))
         IN  (IF match # <<>> /\ field_part # ""
              THEN << <<normalized_key, match[1].comment>> >>
              ELSE <<>>)
             \o BuildCommentMap(lines, i + 1)

parse_select_clause(select_clause) ==
    LET comment_map == BuildCommentMap(SplitOn(select_clause, "\n"), 1)
        clean_clause == StripBlockComments(StripLineComments(select_clause))
    IN  ParseEach(split_fields(clean_clause), comment_map, 1)

(***************************************************************************)
(* The three strategies.  A strategy's None and its empty list are both    *)
(* the empty sequence: parse_sql_fields only tests the result's truth.     *)
(***************************************************************************)
\* the scan for the terminating FROM (lines 66-75).  The loop state is
\* <<paren_count, from_pos>> with from_pos = 0 for -1; once from_pos is set
\* the loop has left by break.
FromStep(sql, st, i) ==
    IF st[2] # 0 THEN st
    ELSE IF Ch(sql, i) = "(" THEN <<st[1] + 1, 0>>
    ELSE IF Ch(sql, i) = ")" THEN <<st[1] - 1, 0>>
    ELSE IF /\ st[1] = 0
            /\ i + 3 <= Len(sql)
            /\ Upper(SubSeq(sql, i, i + 3)) = "FROM"
            /\ (i + 4 > Len(sql) \/ IsSpace(Ch(sql, i + 4)))
            /\ (i = 1 \/ IsSpace(Ch(sql, i - 1)))
         THEN <<st[1], i>>
    ELSE st

RECURSIVE FromLoop(_, _, _, _)
FromLoop(sql, lo, hi, st) ==
    IF lo > hi THEN st
    ELSE IF lo = hi THEN FromStep(sql, st, lo)
    ELSE LET left == FromLoop(sql, lo, (lo + hi) \div 2, st) IN
         \* the test evaluates the first half before the second half starts
         IF left = left THEN FromLoop(sql, (lo + hi) \div 2 + 1, hi, left) ELSE left

FindFromPos(sql, select_start) ==
    FromLoop(sql, select_start, Len(sql), <<0, 0>>)[2]

try_parse_select_from(sql) ==
    LET select_match == WordSearch(sql, "SELECT") IN
    IF select_match = 0 THEN <<>>
    ELSE LET from_pos == FindFromPos(sql, select_match + 6) IN
         IF from_pos = 0 THEN <<>>
         ELSE parse_select_clause(
                  Strip(SubSeq(sql, select_match + 6, from_pos - 1)))

CLAUSE_KEYWORDS == <<"WHERE", "GROUP BY", "ORDER BY", "HAVING", "LIMIT", "UNION">>

\* the loop over the clause keywords (lines 93-97): truncate at the first
\* keyword of the list that occurs, then break
RECURSIVE TruncateAtKeyword(_, _)
TruncateAtKeyword(select_clause, k) ==
    IF k > Len(CLAUSE_KEYWORDS) THEN select_clause
    ELSE LET match == WordSearch(select_clause, CLAUSE_KEYWORDS[k]) IN
         IF match > 0 THEN Strip(Take(select_clause, match - 1))
         ELSE TruncateAtKeyword(select_clause, k + 1)

try_parse_select_fields(sql) ==
    LET select_match == WordSearch(sql, "SELECT") IN
    IF select_match = 0 THEN <<>>
    ELSE parse_select_clause(
             TruncateAtKeyword(Strip(Drop(sql, select_match + 5)), 1))

\* the body of the for loop of try_parse_field_list (lines 113-123), on the
\* loop state <<field_expressions, current, paren_count>>
ListStep(st, char) ==
    IF char = "(" THEN <<st[1], st[2] \o char, st[3] + 1>>
    ELSE IF char = ")" THEN <<st[1], st[2] \o char, st[3] - 1>>
    ELSE IF char = "," /\ st[3] = 0 THEN <<Append(st[1], Strip(st[2])), "", st[3]>>
    ELSE <<st[1], st[2] \o char, st[3]>>

RECURSIVE ListLoop(_, _, _, _)
ListLoop(s, lo, hi, st) ==
    IF lo > hi THEN st
    ELSE IF lo = hi THEN ListStep(st, Ch(s, lo))
    ELSE LET left == ListLoop(s, lo, (lo + hi) \div 2, st) IN
         \* the test evaluates the first half before the second half starts
         IF left = left THEN ListLoop(s, (lo + hi) \div 2 + 1, hi, left) ELSE left

\* field_expressions of try_parse_field_list (lines 104-123)
FieldListExpressions(sql) ==
    LET clean_sql == Strip(StripBlockComments(StripLineComments(sql)))
        st == ListLoop(clean_sql, 1, Len(clean_sql), <<<<>>, "", 0>>)
    IN  IF st[2] # "" THEN Append(st[1], Strip(st[2])) ELSE st[1]

try_parse_field_list(sql) == ParseEach(FieldListExpressions(sql), <<>>, 1)

(***************************************************************************)
(* parse_sql_fields: [ok |-> TRUE, fields |-> ...] on return,              *)
(* [ok |-> FALSE, error |-> ...] when it raises ValueError.                *)
(***************************************************************************)
\* ValueError('...'): the source's message is the CJK text for
\* "cannot parse the SQL"
MSG_UNPARSABLE == "[cannot parse SQL]"

Returned(fs) == [ok |-> TRUE, fields |-> fs, error |-> ""]
Raised(msg) == [ok |-> FALSE, fields |-> <<>>, error |-> msg]

\* the SELECT-only result preferred to the SELECT...FROM result
FirstNonEmpty_SelectOnlyFirst(r1, r2, r3) ==
    IF r2 # <<>> THEN Returned(r2) ELSE IF r1 # <<>> THEN Returned(r1)
    ELSE IF r3 # <<>> THEN Returned(r3) ELSE Raised(MSG_UNPARSABLE)

\* the empty list returned where nothing is recognized
FirstNonEmpty_EmptyList(r1, r2, r3) ==
    IF r1 # <<>> THEN Returned(r1) ELSE IF r2 # <<>> THEN Returned(r2)
    ELSE Returned(r3)

\* lines 36-53: the results of the three strategies, in order
FirstNonEmpty(r1, r2, r3) ==
    IF r1 # <<>> THEN Returned(r1) ELSE IF r2 # <<>> THEN Returned(r2)
    ELSE IF r3 # <<>> THEN Returned(r3) ELSE Raised(MSG_UNPARSABLE)
\* the bare field list tried only for a statement without SELECT
TryStrategies_ListOnlyWithoutSelect(sql, has_select) ==
    FirstNonEmpty(IF has_select THEN try_parse_select_from(sql) ELSE <<>>,
                  IF has_select THEN try_parse_select_fields(sql) ELSE <<>>,
                  IF has_select THEN <<>> ELSE try_parse_field_list(sql))

\* lines 36-51 on the stripped statement
TryStrategies(sql, has_select) ==
    FirstNonEmpty(IF has_select THEN try_parse_select_from(sql) ELSE <<>>,
                  IF has_select THEN try_parse_select_fields(sql) ELSE <<>>,
                  try_parse_field_list(sql))

parse_sql_fields(sql0) ==
    TryStrategies(Strip(sql0), Contains(Upper(Strip(sql0)), "SELECT"))

(***************************************************************************)
(* infer_field_type.  A rule is a record of optional values (a JSON key    *)
(* that is absent, or None, is <<>>): keywords, matchType, targetField,    *)
(* dataType, priority, precision, scale, length.  An inferred type is      *)
(* [type, precision, scale, length] with <<>> for None or an absent key.   *)
(***************************************************************************)
\* dict.get(key, default) on an optional value
OptGet(opt, default) == IF opt = <<>> THEN default ELSE opt[1]

DEFAULT_PRIORITY == 999

PriorityOf(rule) == OptGet(rule.priority, DEFAULT_PRIORITY)

RECURSIVE InsertByPriority_Unstable(_, _)
\* the insertion with a rule placed before the rules of its own priority
InsertByPriority_Unstable(sorted, rule) ==
    IF sorted = <<>> THEN <<rule>>
    ELSE IF PriorityOf(sorted[Len(sorted)]) < PriorityOf(rule)
         THEN Append(sorted, rule)
    ELSE Append(InsertByPriority_Unstable(SubSeq(sorted, 1, Len(sorted) - 1), rule),
                sorted[Len(sorted)])

\* sorted(custom_rules, key=priority) is stable: a rule goes after every rule
\* already placed whose priority is not greater.
RECURSIVE InsertByPriority(_, _)
InsertByPriority(sorted, rule) ==
    IF sorted = <<>> THEN <<rule>>
    ELSE IF PriorityOf(sorted[Len(sorted)]) <= PriorityOf(rule)
         THEN Append(sorted, rule)
    ELSE Append(InsertByPriority(SubSeq(sorted, 1, Len(sorted) - 1), rule),
                sorted[Len(sorted)])

RECURSIVE SortRulesFrom(_, _, _)
SortRulesFrom(custom_rules, i, sorted) ==
    IF i > Len(custom_rules) THEN sorted
    ELSE SortRulesFrom(custom_rules, i + 1,
                       InsertByPriority(sorted, custom_rules[i]))

SortRules(custom_rules) == SortRulesFrom(custom_rules, 1, <<>>)

\* re.compile fails on the keyword: of the patterns the model draws, those
\* with an unclosed "(" or "[" or a leading "*".  Every other keyword the
\* model draws is a literal with an optional "^" before it and an optional
\* "$" after it.
RegexMalformed(keyword) ==
    \/ Contains(keyword, "(") /\ ~Contains(keyword, ")")
    \/ Contains(keyword, "[") /\ ~Contains(keyword, "]")
    \/ StartsWith(keyword, "*")

\* re.search(keyword, target_text, re.IGNORECASE) for a well-formed keyword;
\* target_text is lower-cased by the caller (lines 229-230)
AnchoredSearch(at_start, at_end, literal, target_text) ==
    IF at_start /\ at_end THEN target_text = literal
    ELSE IF at_start THEN StartsWith(target_text, literal)
    ELSE IF at_end THEN EndsWith(target_text, literal)
    ELSE Contains(target_text, literal)

RegexSearch(keyword, target_text) ==
    AnchoredSearch(StartsWith(keyword, "^"), EndsWith(keyword, "$"),
                   Lower(Drop(Take(keyword,
                                   Len(keyword) - (IF EndsWith(keyword, "$") THEN 1 ELSE 0)),
                              IF StartsWith(keyword, "^") THEN 1 ELSE 0)),
                   target_text)

\* a keyword re.compile rejects counted as found
KeywordMatches_MalformedFound(match_type, keyword, target_text) ==
    IF match_type = "equals" THEN target_text = Lower(keyword)
    ELSE IF match_type = "contains" THEN Contains(target_text, Lower(keyword))
    ELSE IF match_type = "regex"
         THEN RegexMalformed(keyword) \/ RegexSearch(keyword, target_text)
    ELSE FALSE

\* one keyword of one rule against the target text (lines 243-274); the
\* error re.search raises on a malformed keyword is swallowed (lines 273-274)
KeywordMatches(match_type, keyword, target_text) ==
    IF match_type = "equals" THEN target_text = Lower(keyword)
    ELSE IF match_type = "contains" THEN Contains(target_text, Lower(keyword))
    ELSE IF match_type = "regex"
         THEN ~RegexMalformed(keyword) /\ RegexSearch(keyword, target_text)
    ELSE FALSE

RuleMatches(rule, name, comment) ==
    LET match_type == OptGet(rule.matchType, "contains")
        target_field == OptGet(rule.targetField, "name")
        keywords == OptGet(rule.keywords, <<>>)
        target_text == IF target_field = "name" THEN name ELSE comment
    IN  \E k \in 1..Len(keywords) :
            KeywordMatches(match_type, keywords[k], target_text)

RuleType(rule) ==
    [type |-> rule.dataType[1], precision |-> rule.precision,
     scale |-> rule.scale, length |-> rule.length]

PlainType(t) == [type |-> t, precision |-> <<>>, scale |-> <<>>, length |-> <<>>]

DecimalDefault ==
    [type |-> "DECIMAL", precision |-> <<24>>, scale |-> <<6>>, length |-> <<>>]

\* CJK keywords of the default rules, as ASCII stand-ins
CJK_CURRENCY_CODE == "[bizhong daima]"
CJK_CODE          == "[daima]"
CJK_ENCODING      == "[bianma]"
CJK_DATE          == "[riqi]"
CJK_TIME          == "[shijian]"
CJK_DESCRIPTION   == "[miaoshu]"
CJK_REMARK        == "[beizhu]"
CJK_MARK          == "[biaoji]"
CJK_WHETHER       == "[shifou]"
CJK_AMOUNT        == "[jine]"
CJK_PRICE         == "[jiage]"
CJK_QUANTITY      == "[shuliang]"

ContainsAny(s, ks) == \E k \in ks : Contains(s, k)
\* the default rules with the date rule tried before the code rule
FallbackType_DateBeforeCode(name, comment) ==
    IF \/ name \in {"fcytp", "scytp", "cytp", "currency_type"}
       \/ Contains(name, CJK_CURRENCY_CODE)
       \/ Contains(comment, CJK_CURRENCY_CODE)
    THEN PlainType("STRING")
    ELSE IF /\ ContainsAny(name, {"date", CJK_DATE})
            /\ ~Contains(name, "day") /\ ~Contains(name, "days")
    THEN PlainType("DATE")
    ELSE IF ContainsAny(name, {"mode", "code", "icode", CJK_CODE, CJK_ENCODING})
    THEN PlainType("STRING")
    ELSE IF ContainsAny(name, {"time", "timestamp", CJK_TIME})
    THEN PlainType("TIMESTAMP")
    ELSE IF ContainsAny(name, {"org", "trcl", "cust", "stff", "user", "dept"})
    THEN PlainType("STRING")
    ELSE IF ContainsAny(name, {"_name", "_dscr", "_rmrk", "name",
                               CJK_DESCRIPTION, CJK_REMARK})
    THEN PlainType("STRING")
    ELSE IF \/ Contains(name, "flag") \/ StartsWith(name, "is_")
            \/ Contains(name, CJK_MARK) \/ Contains(name, CJK_WHETHER)
    THEN PlainType("STRING")
    ELSE IF Contains(name, "days") \/ (Contains(name, "day") /\ name # "weekday")
    THEN DecimalDefault
    ELSE IF ContainsAny(name, {"amt", "amount", "price", "ocy", "rcy", "scy",
                               "elmn", "crdt", "totl", "ocpt",
                               CJK_AMOUNT, CJK_PRICE})
    THEN DecimalDefault
    ELSE IF ContainsAny(name, {"qty", "quantity", "cnt", "count", CJK_QUANTITY})
    THEN DecimalDefault
    ELSE PlainType("STRING")

\* the default rules (lines 276-299)
FallbackType(name, comment) ==
    IF \/ name \in {"fcytp", "scytp", "cytp", "currency_type"}
       \/ Contains(name, CJK_CURRENCY_CODE)
       \/ Contains(comment, CJK_CURRENCY_CODE)
    THEN PlainType("STRING")
    ELSE IF ContainsAny(name, {"mode", "code", "icode", CJK_CODE, CJK_ENCODING})
    THEN PlainType("STRING")
    ELSE IF /\ ContainsAny(name, {"date", CJK_DATE})
            /\ ~Contains(name, "day") /\ ~Contains(name, "days")
    THEN PlainType("DATE")
    ELSE IF ContainsAny(name, {"time", "timestamp", CJK_TIME})
    THEN PlainType("TIMESTAMP")
    ELSE IF ContainsAny(name, {"org", "trcl", "cust", "stff", "user", "dept"})
    THEN PlainType("STRING")
    ELSE IF ContainsAny(name, {"_name", "_dscr", "_rmrk", "name",
                               CJK_DESCRIPTION, CJK_REMARK})
    THEN PlainType("STRING")
    ELSE IF \/ Contains(name, "flag") \/ StartsWith(name, "is_")
            \/ Contains(name, CJK_MARK) \/ Contains(name, CJK_WHETHER)
    THEN PlainType("STRING")
    ELSE IF Contains(name, "days") \/ (Contains(name, "day") /\ name # "weekday")
    THEN DecimalDefault
    ELSE IF ContainsAny(name, {"amt", "amount", "price", "ocy", "rcy", "scy",
                               "elmn", "crdt", "totl", "ocpt",
                               CJK_AMOUNT, CJK_PRICE})
    THEN DecimalDefault
    ELSE IF ContainsAny(name, {"qty", "quantity", "cnt", "count", CJK_QUANTITY})
    THEN DecimalDefault
    ELSE PlainType("STRING")

\* the loop over sorted_rules: the type of the first rule that matches, else
\* the default rules
RECURSIVE FirstRuleType(_, _, _, _)
FirstRuleType(sorted_rules, i, name, comment) ==
    IF i > Len(sorted_rules) THEN FallbackType(name, comment)
    ELSE IF RuleMatches(sorted_rules[i], name, comment)
         THEN RuleType(sorted_rules[i])
    ELSE FirstRuleType(sorted_rules, i + 1, name, comment)

infer_field_type(field_name, field_comment, custom_rules) ==
    FirstRuleType(SortRules(custom_rules), 1,
                  Lower(field_name), Lower(field_comment))

(***************************************************************************)
(* map_data_type, for a type_info that is a dict (what generate_ddl        *)
(* passes).                                                                *)
(***************************************************************************)
\* truth value of an optional integer: None and 0 are false
Truthy(opt) == opt # <<>> /\ opt[1] # 0

RECURSIVE ReplaceAll(_, _, _)
ReplaceAll(s, old, new) ==
    LET p == Find(s, old) IN
    IF p = 0 THEN s
    ELSE Take(s, p - 1) \o new \o ReplaceAll(Drop(s, p + Len(old) - 1), old, new)

Parens2(base, precision, scale) ==
    base \o "(" \o IntToStr(precision[1]) \o ", " \o IntToStr(scale[1]) \o ")"

Parens1(base, n) == base \o "(" \o IntToStr(n[1]) \o ")"

MapClickhouse(result_type, precision, scale, length) ==
    IF result_type = "STRING" THEN "String"
    ELSE IF result_type = "DATE" THEN "Date"
    ELSE IF result_type = "TIMESTAMP" THEN "DateTime"
    ELSE IF StartsWith(result_type, "DECIMAL")
    THEN LET base_type == ReplaceAll(result_type, "DECIMAL", "Decimal") IN
         IF Truthy(precision) /\ Truthy(scale)
         THEN Parens2(base_type, precision, scale)
         ELSE base_type
    ELSE IF StartsWith(result_type, "FLOAT")
    THEN IF Truthy(precision) THEN "Float" \o IntToStr(precision[1]) ELSE "Float64"
    ELSE IF StartsWith(result_type, "DOUBLE") THEN "Float64"
    ELSE IF result_type \in {"VARCHAR", "CHAR"} THEN "String"
    ELSE result_type

\* the postgresql branch with nothing returned for a type it does not name
MapPostgresql_NoFallThrough(result_type, precision, scale, length) ==
    IF result_type = "STRING" THEN "TEXT"
    ELSE IF result_type = "TIMESTAMP" THEN "TIMESTAMP"
    ELSE IF StartsWith(result_type, "DECIMAL")
    THEN IF Truthy(precision) /\ Truthy(scale)
         THEN Parens2("DECIMAL", precision, scale)
         ELSE "DECIMAL"
    ELSE IF result_type \in {"VARCHAR", "CHAR"}
    THEN IF Truthy(length) THEN Parens1(result_type, length) ELSE "VARCHAR(255)"
    ELSE IF StartsWith(result_type, "FLOAT") THEN "REAL"
    ELSE IF StartsWith(result_type, "DOUBLE") THEN "DOUBLE PRECISION"
    ELSE ""

MapPostgresql(result_type, precision, scale, length) ==
    IF result_type = "STRING" THEN "TEXT"
    ELSE IF result_type = "TIMESTAMP" THEN "TIMESTAMP"
    ELSE IF StartsWith(result_type, "DECIMAL")
    THEN IF Truthy(precision) /\ Truthy(scale)
         THEN Parens2("DECIMAL", precision, scale)
         ELSE "DECIMAL"
    ELSE IF result_type \in {"VARCHAR", "CHAR"}
    THEN IF Truthy(length) THEN Parens1(result_type, length) ELSE "VARCHAR(255)"
    ELSE IF StartsWith(result_type, "FLOAT") THEN "REAL"
    ELSE IF StartsWith(result_type, "DOUBLE") THEN "DOUBLE PRECISION"
    ELSE result_type

\* the default branch with STRING's mapping for a type it does not name
MapOther_UnknownAsString(result_type, precision, scale, length, database_type) ==
    IF result_type = "STRING"
    THEN IF database_type \in {"spark", "hive"} THEN "STRING" ELSE "VARCHAR(255)"
    ELSE IF StartsWith(result_type, "DECIMAL")
    THEN IF Truthy(precision) /\ Truthy(scale)
         THEN Parens2("DECIMAL", precision, scale)
         ELSE "DECIMAL(24, 6)"
    ELSE IF result_type = "TIMESTAMP"
    THEN IF database_type \in {"mysql", "starrocks", "doris"}
         THEN "DATETIME" ELSE "TIMESTAMP"
    ELSE IF result_type \in {"VARCHAR", "CHAR"}
    THEN IF Truthy(length) THEN Parens1(result_type, length) ELSE "VARCHAR(255)"
    ELSE IF StartsWith(result_type, "FLOAT")
    THEN IF Truthy(precision) THEN Parens1("FLOAT", precision) ELSE "FLOAT"
    ELSE IF StartsWith(result_type, "DOUBLE")
    THEN IF Truthy(precision) THEN Parens1("DOUBLE", precision) ELSE "DOUBLE"
    ELSE IF database_type \in {"spark", "hive"} THEN "STRING" ELSE "VARCHAR(255)"

\* MySQL, Spark, StarRocks, Hive, Doris (and any other identifier)
MapOther(result_type, precision, scale, length, database_type) ==
    IF result_type = "STRING"
    THEN IF database_type \in {"spark", "hive"} THEN "STRING" ELSE "VARCHAR(255)"
    ELSE IF StartsWith(result_type, "DECIMAL")
    THEN IF Truthy(precision) /\ Truthy(scale)
         THEN Parens2("DECIMAL", precision, scale)
         ELSE "DECIMAL(24, 6)"
    ELSE IF result_type = "TIMESTAMP"
    THEN IF database_type \in {"mysql", "starrocks", "doris"}
         THEN "DATETIME" ELSE "TIMESTAMP"
    ELSE IF result_type \in {"VARCHAR", "CHAR"}
    THEN IF Truthy(length) THEN Parens1(result_type, length) ELSE "VARCHAR(255)"
    ELSE IF StartsWith(result_type, "FLOAT")
    THEN IF Truthy(precision) THEN Parens1("FLOAT", precision) ELSE "FLOAT"
    ELSE IF StartsWith(result_type, "DOUBLE")
    THEN IF Truthy(precision) THEN Parens1("DOUBLE", precision) ELSE "DOUBLE"
    ELSE result_type

map_data_type(type_info, database_type) ==
    LET result_type == Upper(type_info.type) IN
    IF database_type = "clickhouse"
    THEN MapClickhouse(result_type, type_info.precision, type_info.scale,
                       type_info.length)
    ELSE IF database_type = "postgresql"
    THEN MapPostgresql(result_type, type_info.precision, type_info.scale,
                       type_info.length)
    ELSE MapOther(result_type, type_info.precision, type_info.scale,
                  type_info.length, database_type)

(***************************************************************************)
(* DATABASE_CONFIGS, DATABASE_LABELS, select_primary_key, generate_ddl,    *)
(* generate_multiple_ddls                                                  *)
(***************************************************************************)
KNOWN_DATABASES ==
    {"spark", "mysql", "postgresql", "starrocks", "clickhouse", "hive", "doris"}

\* add_pk and add_engine are read with config.get: an absent key is false
DATABASE_CONFIGS ==
    [d \in KNOWN_DATABASES |->
        [prefix |-> IF d = "postgresql" THEN "CREATE TABLE"
                    ELSE "CREATE TABLE IF NOT EXISTS",
         comment |-> IF d = "postgresql" THEN "SEPARATE" ELSE "INLINE",
         add_pk |-> d = "mysql",
         add_engine |-> d = "mysql"]]

DATABASE_LABELS ==
    [d \in KNOWN_DATABASES |->
        CASE d = "spark" -> "Spark SQL"
          [] d = "mysql" -> "MySQL"
          [] d = "postgresql" -> "PostgreSQL"
          [] d = "starrocks" -> "StarRocks"
          [] d = "clickhouse" -> "ClickHouse"
          [] d = "hive" -> "Hive"
          [] d = "doris" -> "Doris"]

\* dict.get(key, default) on a dict modelled as a function
DictGet(d, key, default) == IF key \in DOMAIN d THEN d[key] ELSE default

\* the table name placeholder of the source, two CJK characters
TABLE_NAME == "[table]"

EndsIcode(n) == EndsWith(Lower(n), "icode")
EndsId(n) == EndsWith(Lower(n), "id") /\ ~EndsWith(Lower(n), "icode")

\* the first loop of select_primary_key (lines 394-396); <<>> when it ends
RECURSIVE FirstIcode(_, _)
FirstIcode(fs, i) ==
    IF i > Len(fs) THEN <<>>
    ELSE IF EndsIcode(fs[i].name) THEN <<fs[i].name>>
    ELSE FirstIcode(fs, i + 1)

\* the second loop (lines 398-400)
RECURSIVE FirstId(_, _)
FirstId(fs, i) ==
    IF i > Len(fs) THEN <<>>
    ELSE IF EndsId(fs[i].name) THEN <<fs[i].name>>
    ELSE FirstId(fs, i + 1)
\* the two loops in the other order: the generic id marker first
select_primary_key_IdFirst(fs) ==
    IF fs = <<>> THEN <<>>
    ELSE LET icode == FirstIcode(fs, 1)
             id == FirstId(fs, 1)
         IN  IF id # <<>> THEN id
             ELSE IF icode # <<>> THEN icode
             ELSE <<fs[1].name>>

\* <<>> for None
select_primary_key(fs) ==
    IF fs = <<>> THEN <<>>
    ELSE LET icode == FirstIcode(fs, 1)
             id == FirstId(fs, 1)
         IN  IF icode # <<>> THEN icode
             ELSE IF id # <<>> THEN id
             ELSE <<fs[1].name>>

MAX_TYPE == 18
DEFAULT_MAX_NAME == 30

RECURSIVE MaxNameLen(_, _)
MaxNameLen(fs, i) ==
    IF i > Len(fs) THEN 0
    ELSE LET rest == MaxNameLen(fs, i + 1) IN
         IF Len(fs[i].name) > rest THEN Len(fs[i].name) ELSE rest
\* the comment put between the quotes as it is
EscapeQuotes_AsIs(s) == s

\* field['comment'].replace("'", "''")
EscapeQuotes(s) == ReplaceAll(s, "'", "''")

\* lines 414-422
AdjustedFields(fs, db_rules, database_type) ==
    [i \in 1..Len(fs) |->
        [name |-> fs[i].name,
         type |-> map_data_type(
                      infer_field_type(fs[i].name, fs[i].comment, db_rules),
                      database_type),
         comment |-> fs[i].comment]]

\* lines 426-434
ColumnLines(adjusted_fields, max_name) ==
    [idx \in 1..Len(adjusted_fields) |->
        LET field == adjusted_fields[idx]
            padded_name == LJust(field.name, max_name)
            padded_type == LJust(field.type, MAX_TYPE)
            comment_text == "COMMENT '" \o EscapeQuotes(field.comment) \o "'"
        IN  (IF idx = 1 THEN "    " ELSE "   ,")
            \o padded_name \o " " \o padded_type \o " " \o comment_text]
\* the statements from the second field on
ColumnCommentLines_FromSecond(adjusted_fields) ==
    [i \in 1..(Len(adjusted_fields) - 1) |->
        "COMMENT ON COLUMN " \o TABLE_NAME \o "." \o adjusted_fields[i + 1].name
        \o " IS '" \o EscapeQuotes(adjusted_fields[i + 1].comment) \o "';"]

\* lines 451-452
ColumnCommentLines(adjusted_fields) ==
    [i \in 1..Len(adjusted_fields) |->
        "COMMENT ON COLUMN " \o TABLE_NAME \o "." \o adjusted_fields[i].name
        \o " IS '" \o EscapeQuotes(adjusted_fields[i].comment) \o "';"]

\* ddl_parts, the list generate_ddl joins with line breaks
DdlParts(fs, custom_rules, database_type) ==
    LET config == DictGet(DATABASE_CONFIGS, database_type, DATABASE_CONFIGS["spark"])
        max_name == IF fs = <<>> THEN DEFAULT_MAX_NAME ELSE MaxNameLen(fs, 1)
        db_rules == DictGet(custom_rules, database_type, <<>>)
        adjusted_fields == AdjustedFields(fs, db_rules, database_type)
        pk == IF config.add_pk THEN select_primary_key(fs) ELSE <<>>
    IN  <<config.prefix \o " " \o TABLE_NAME \o " (">>
        \o ColumnLines(adjusted_fields, max_name)
        \o (IF pk # <<>> /\ pk[1] # ""
            THEN <<"   ,PRIMARY KEY (" \o pk[1] \o ")">> ELSE <<>>)
        \o <<")">>
        \o (IF config.comment = "INLINE"
            THEN (IF config.add_engine THEN <<" ENGINE=InnoDB">> ELSE <<>>)
                 \o <<" COMMENT ''">>
            ELSE <<";", "", "COMMENT ON TABLE " \o TABLE_NAME \o " IS '';">>
                 \o ColumnCommentLines(adjusted_fields))

generate_ddl(fs, custom_rules, database_type) ==
    Join(DdlParts(fs, custom_rules, database_type), "\n")

\* the loop without the test for an entry in DATABASE_CONFIGS
RECURSIVE CollectDdls_NoConfigTest(_, _, _, _)
CollectDdls_NoConfigTest(fs, custom_rules, database_types, i) ==
    IF i > Len(database_types) THEN <<>>
    ELSE LET db_type == database_types[i] IN
         <<[databaseType |-> db_type,
            label |-> DictGet(DATABASE_LABELS, db_type, Upper(db_type)),
            ddl |-> generate_ddl(fs, custom_rules, db_type)]>>
         \o CollectDdls_NoConfigTest(fs, custom_rules, database_types, i + 1)

\* the loop of generate_multiple_ddls (lines 459-467)
RECURSIVE CollectDdls(_, _, _, _)
CollectDdls(fs, custom_rules, database_types, i) ==
    IF i > Len(database_types) THEN <<>>
    ELSE LET db_type == database_types[i] IN
         (IF db_type \in DOMAIN DATABASE_CONFIGS
          THEN <<[databaseType |-> db_type,
                  label |-> DictGet(DATABASE_LABELS, db_type, Upper(db_type)),
                  ddl |-> generate_ddl(fs, custom_rules, db_type)]>>
          ELSE <<>>)
         \o CollectDdls(fs, custom_rules, database_types, i + 1)

\* lines 469-471, the result dict: [ddl |-> text] or [ddls |-> list]
ResultOf(ddls) == IF Len(ddls) = 1 THEN [ddl |-> ddls[1].ddl] ELSE [ddls |-> ddls]

\* the result always in the collection shape
generate_multiple_ddls_AlwaysCollection(fs, custom_rules, database_types) ==
    [ddls |-> CollectDdls(fs, custom_rules, database_types, 1)]

generate_multiple_ddls(fs, custom_rules, database_types) ==
    ResultOf(CollectDdls(fs, custom_rules, database_types, 1))

(***************************************************************************)
(* APIHandler.do_POST.  A request is [path, data]; data is the decoded     *)
(* JSON object, a function from the keys it holds to their values.  A      *)
(* response is [code, body].  The requests drawn are JSON objects whose    *)
(* values have the types the front end sends (a string, a list of          *)
(* strings, an object of rule lists), so the "except Exception" branch     *)
(* (status 500) is not reached.                                            *)
(***************************************************************************)
API_PATH == "/api/generate-ddl"

\* the messages of the source are CJK text: "please provide a valid SQL
\* query" and "could not parse any field out of the SQL"
MSG_NO_SQL    == "[please provide a valid SQL query]"
MSG_NO_FIELDS == "[no field parsed from the SQL]"

Idle == <<>>

Receive(req) ==
    /\ pc = "idle"
    /\ pc' = "received"
    /\ request' = req
    /\ UNCHANGED <<arg, ret, fields, response>>

\* lines 523-526
NotFound ==
    /\ pc = "received"
    /\ request.path # API_PATH
    /\ response' = [code |-> 404, body |-> [raw |-> "Not Found"]]
    /\ pc' = "responded"
    /\ UNCHANGED <<arg, ret, request, fields>>

\* lines 499-502
RejectEmptySql ==
    /\ pc = "received"
    /\ request.path = API_PATH
    /\ Strip(DictGet(request.data, "sql", "")) = ""
    /\ response' = [code |-> 400, body |-> [error |-> MSG_NO_SQL]]
    /\ pc' = "responded"
    /\ UNCHANGED <<arg, ret, request, fields>>

\* lines 504-507 and the "except ValueError" of lines 519-520, for the
\* outcome of parse_sql_fields
AnswerParsed(parsed) ==
    IF ~parsed.ok
    THEN /\ response' = [code |-> 400, body |-> [error |-> parsed.error]]
         /\ pc' = "responded"
         /\ UNCHANGED fields
    ELSE IF parsed.fields = <<>>
    THEN /\ response' = [code |-> 400, body |-> [error |-> MSG_NO_FIELDS]]
         /\ pc' = "responded"
         /\ fields' = parsed.fields
    ELSE /\ fields' = parsed.fields
         /\ pc' = "parsed"
         /\ UNCHANGED response

ParseFields ==
    /\ pc = "received"
    /\ request.path = API_PATH
    /\ Strip(DictGet(request.data, "sql", "")) # ""
    /\ AnswerParsed(parse_sql_fields(Strip(DictGet(request.data, "sql", ""))))
    /\ UNCHANGED <<arg, ret, request>>

\* lines 509-518
Generate ==
    /\ pc = "parsed"
    /\ LET database_types == DictGet(request.data, "databaseTypes", <<"spark">>)
           custom_rules == DictGet(request.data, "rulesByDatabase", <<>>)
       IN  response' = [code |-> 200,
                        body |-> generate_multiple_ddls(fields, custom_rules,
                                                        database_types)]
    /\ pc' = "responded"
    /\ UNCHANGED <<arg, ret, request, fields>>

\* the handler returns; the server waits for the next request
Finish ==
    /\ pc = "responded"
    /\ pc' = "idle"
    /\ request' = Idle
    /\ fields' = <<>>
    /\ response' = Idle
    /\ UNCHANGED <<arg, ret>>

(***************************************************************************)
(* The inputs the checks draw.                                             *)
(***************************************************************************)
MaxSplitLen == 5
MaxRules == 2
MaxItems == 2
MaxTokens == 3
MaxFields == 2
MaxTypes == 3
MaxBare == 3

RECURSIVE StringsOver(_, _)
StringsOver(alphabet, n) ==
    IF n = 0 THEN {""}
    ELSE LET shorter == StringsOver(alphabet, n - 1) IN
         shorter \cup {s \o c : s \in shorter, c \in alphabet}

RECURSIVE SeqsOver(_, _)
SeqsOver(S, n) ==
    IF n = 0 THEN {<<>>}
    ELSE LET shorter == SeqsOver(S, n - 1) IN
         shorter \cup {Append(q, x) : q \in shorter, x \in S}

SPLIT_ALPHABET == {"a", ",", "(", ")", " "}

SplitInputs ==
    StringsOver(SPLIT_ALPHABET, MaxSplitLen)
        \cup {"a,b,(c,d),e", "org_id, f(a, (b, c)) AS x , ", "a, b,\n", ",,"}

\* a rule as the front end posts it: every key is optional
Rule(keywords, matchType, targetField, dataType, priority, precision, scale, length) ==
    [keywords |-> keywords, matchType |-> matchType, targetField |-> targetField,
     dataType |-> dataType, priority |-> priority, precision |-> precision,
     scale |-> scale, length |-> length]

RULE_POOL ==
    { Rule(<< <<"amt">> >>, <<"contains">>, <<"name">>, <<"DECIMAL">>, <<0>>, <<10>>, <<2>>, <<>>),
      Rule(<< <<"amt">> >>, <<"contains">>, <<"name">>, <<"DECIMAL">>, <<1>>, <<10>>, <<0>>, <<>>),
      Rule(<< <<"zz", "credit">> >>, <<"contains">>, <<"name">>, <<"VARCHAR">>, <<1>>, <<>>, <<>>, <<64>>),
      Rule(<< <<"credit_amt">> >>, <<"equals">>, <<"name">>, <<"BIGINT">>, <<>>, <<>>, <<>>, <<>>),
      Rule(<< <<"(", "amt$">> >>, <<"regex">>, <<"name">>, <<"FLOAT">>, <<0>>, <<8>>, <<>>, <<>>),
      Rule(<< <<"[a-z", "^org", "*id">> >>, <<"regex">>, <<"name">>, <<"INT">>, <<1>>, <<>>, <<>>, <<>>),
      Rule(<< <<"total">> >>, <<"contains">>, <<"comment">>, <<"DOUBLE">>, <<2>>, <<>>, <<>>, <<>>),
      Rule(<< <<"AMT">> >>, <<>>, <<>>, <<"DECIMAL">>, <<>>, <<38>>, <<10>>, <<>>) }

INFER_NAMES == {"credit_amt", "org_id", "business_date", "x"}
INFER_COMMENTS == {"total amount", "x"}
INFER_DATABASES == {"spark", "mysql", "postgresql", "clickhouse"}

InferInputs ==
    [name : INFER_NAMES, comment : INFER_COMMENTS,
     rules : SeqsOver(RULE_POOL, MaxRules), database : INFER_DATABASES]

SELECT_ITEMS ==
    {"org_id", "credit_amt AS amt", "credit_amt AS amt -- comment",
     "cust_icode -- code", "(SELECT 1)", "f(a, b) x"}
SELECT_HEADS == {"SELECT ", "select DISTINCT ", ""}
SELECT_SEPS == {", ", "\n, "}
SELECT_TAILS == {"\nFROM t", "", " WHERE x"}
SQL_TOKENS == {"SELECT", " ", "a", ",", "FROM", "(", ")", "--x\n"}

Statement(head, items, sep, tail) == head \o Join(items, sep) \o tail

\* bare lists of plain identifiers
BARE_IDENTIFIERS == {"a", "b", "c", "selected_flag"}
BARE_SEPS == {", ", ",\n"}

BareLists ==
    {Join(ids, sep) :
        ids \in SeqsOver(BARE_IDENTIFIERS, MaxBare) \ {<<>>}, sep \in BARE_SEPS}

\* SELECT clauses with one field per line, each line ending in a comment,
\* the comma written before the field or after the one above it
LINE_NAMES == {"a", "b", "org_id"}
COMMA_STYLES == {"leading", "trailing"}

LineNote(i) == "note " \o IntToStr(i)

RECURSIVE CommentedLinesFrom(_, _, _)
CommentedLinesFrom(names, style, i) ==
    IF i > Len(names) THEN ""
    ELSE (IF style = "leading" /\ i > 1 THEN "," ELSE "")
         \o names[i]
         \o (IF style = "trailing" /\ i < Len(names) THEN "," ELSE "")
         \o " -- " \o LineNote(i) \o "\n"
         \o CommentedLinesFrom(names, style, i + 1)

CommentedLines(names, style) ==
    "SELECT " \o CommentedLinesFrom(names, style, 1) \o "FROM t"

DistinctNames(S, n) ==
    {names \in SeqsOver(S, n) \ {<<>>} :
        \A i, j \in 1..Len(names) : names[i] = names[j] => i = j}

CommentedStatements ==
    {CommentedLines(names, style) :
        names \in DistinctNames(LINE_NAMES, MaxItems), style \in COMMA_STYLES}

\* SELECT lists without FROM followed by one or two clauses
CLAUSE_TAILS ==
    {" WHERE c = 1", " GROUP BY c", " ORDER BY c", " having c > 1", " LIMIT 1",
     " UNION SELECT b"}

ClauseStatements ==
    {"SELECT a, b" \o tails[1] \o tails[2] :
        tails \in {pair \in CLAUSE_TAILS \X (CLAUSE_TAILS \cup {""}) : pair[1] # pair[2]}}

\* single expressions with DISTINCT in front or further in
DISTINCT_EXPRESSIONS ==
    {"DISTINCT a", "distinct  a b", "count(DISTINCT x)", "sum(distinct x) AS s",
     "a DISTINCT b", "distinct_flag"}

\* single expressions without a trailing AS
ALIAS_EXPRESSIONS ==
    {"a", "a b", "a + b", "a +b", "a = b", "a - b c", "a / b", "x*y z", "x* y",
     "count(x) n", "f(a, b) x", "t.a 'x'", "a \"q\"", "a ''", "a  b   c"}

ParseInputs ==
    BareLists
    \cup DISTINCT_EXPRESSIONS
    \cup ALIAS_EXPRESSIONS
    \cup CommentedStatements
    \cup ClauseStatements
    \cup
    {Statement(h, items, sep, t) :
        h \in SELECT_HEADS, items \in SeqsOver(SELECT_ITEMS, MaxItems) \ {<<>>},
        sep \in SELECT_SEPS, t \in SELECT_TAILS}
    \cup StringsOver(SQL_TOKENS, MaxTokens)
    \cup {"SELECT org_id, credit_amt AS amt -- comment\nFROM t",
          "SELECT (SELECT 1) FROM t", "SELECTED", "-- x",
          "SELECT a, b FROM t", "a /* x, y */, b", "  a, b  "}

REQUEST_ITEMS == {"org_id", "credit_amt AS amt -- comment", "(SELECT 1)"}
REQUEST_DATABASES == {"spark", "mysql", "postgresql", "oracle"}

RequestSqls ==
    {Statement("SELECT ", items, ",\n", "\nFROM t") :
        items \in SeqsOver(REQUEST_ITEMS, MaxFields) \ {<<>>}}
    \cup {"", "  ", "a, b", "-- x", "SELECT (SELECT 1) FROM t"}

\* rulesByDatabase: {} and a rule set for spark
RequestRules ==
    { <<>>,
      ("spark" :> << Rule(<< <<"amt">> >>, <<"contains">>, <<"name">>,
                          <<"DECIMAL">>, <<1>>, <<10>>, <<0>>, <<>>) >>) }

\* the decoded JSON object: a key is there or it is not.  Every statement
\* goes with two choices of dialects, every choice of dialects with two
\* statements.
RequestData ==
    LET sqls == {<<>>} \cup {("sql" :> q) : q \in RequestSqls}
        types == {<<>>} \cup {("databaseTypes" :> l) :
                                l \in SeqsOver(REQUEST_DATABASES, MaxTypes)}
        rules == {("rulesByDatabase" :> r) : r \in RequestRules}
    IN  {q @@ l @@ r :
            q \in sqls,
            l \in {<<>>, ("databaseTypes" :> <<"mysql", "postgresql">>)},
            r \in rules}
        \cup
        {q @@ l @@ r :
            q \in {("sql" :> "SELECT org_id,\ncredit_amt AS amt -- comment\nFROM t"),
                   ("sql" :> "a, b")},
            l \in types,
            r \in rules}

Requests ==
    [path : {API_PATH}, data : RequestData \cup {<<>>, ("sql" :> "a, b")}]
        \cup [path : {"/api/other"}, data : {<<>>, ("sql" :> "a, b")}]

(***************************************************************************)
(* split_fields on its own.                                                *)
(***************************************************************************)
SplitInit ==
    /\ pc = "split_call"
    /\ arg \in SplitInputs
    /\ ret = <<>>
    /\ request = Idle /\ fields = <<>> /\ response = Idle

SplitCall ==
    /\ pc = "split_call"
    /\ ret' = split_fields(arg)
    /\ pc' = "split_done"
    /\ UNCHANGED <<arg, request, fields, response>>

SplitNext == SplitCall

SplitSpec == SplitInit /\ [][SplitNext]_vars

(***************************************************************************)
(* infer_field_type and map_data_type as generate_ddl calls them for one   *)
(* field (lines 416-417).                                                  *)
(***************************************************************************)
InferInit ==
    /\ pc = "infer_call"
    /\ arg \in InferInputs
    /\ ret = <<>>
    /\ request = Idle /\ fields = <<>> /\ response = Idle

InferCall ==
    /\ pc = "infer_call"
    /\ ret' = [type_info |-> infer_field_type(arg.name, arg.comment, arg.rules),
               data_type |-> ""]
    /\ pc' = "infer_done"
    /\ UNCHANGED <<arg, request, fields, response>>

MapCall ==
    /\ pc = "infer_done"
    /\ ret' = [ret EXCEPT !.data_type = map_data_type(ret.type_info, arg.database)]
    /\ pc' = "map_done"
    /\ UNCHANGED <<arg, request, fields, response>>

InferNext == InferCall \/ MapCall

InferSpec == InferInit /\ [][InferNext]_vars

(***************************************************************************)
(* parse_sql_fields on its own.                                            *)
(***************************************************************************)
ParseInit ==
    /\ pc = "parse_call"
    /\ arg \in ParseInputs
    /\ ret = <<>>
    /\ request = Idle /\ fields = <<>> /\ response = Idle

ParseCall ==
    /\ pc = "parse_call"
    /\ ret' = parse_sql_fields(arg)
    /\ pc' = "parse_done"
    /\ UNCHANGED <<arg, request, fields, response>>

ParseNext == ParseCall

ParseSpec == ParseInit /\ [][ParseNext]_vars

(***************************************************************************)
(* The server: one request at a time through do_POST.                      *)
(***************************************************************************)
Init ==
    /\ pc = "idle"
    /\ arg = <<>>
    /\ ret = <<>>
    /\ request = Idle
    /\ fields = <<>>
    /\ response = Idle

Next ==
    \/ \E req \in Requests : Receive(req)
    \/ NotFound
    \/ RejectEmptySql
    \/ ParseFields
    \/ Generate
    \/ Finish

Spec == Init /\ [][Next]_vars

(***************************************************************************)
(* Properties of split_fields (SplitSpec).                                 *)
(***************************************************************************)
\* "(" seen minus ")" seen before position i
ParenDepthBefore(s, i) ==
    Cardinality({j \in 1..(i - 1) : Ch(s, j) = "("})
        - Cardinality({j \in 1..(i - 1) : Ch(s, j) = ")"})

TopLevelCommas(s) == {i \in 1..Len(s) : Ch(s, i) = "," /\ ParenDepthBefore(s, i) = 0}

\* every ")" closes an earlier "(" and every "(" is closed
Balanced(s) ==
    /\ \A i \in 1..Len(s) : ParenDepthBefore(s, i + 1) >= 0
    /\ ParenDepthBefore(s, Len(s) + 1) = 0

Slice(s, from, to) == IF from > to THEN "" ELSE SubSeq(s, from, to)

\* the k-th cut of s: 0, the top-level commas in order, Len(s) + 1
Cut(s, k) ==
    LET commas == TopLevelCommas(s) IN
    IF k = 0 THEN 0
    ELSE IF k > Cardinality(commas) THEN Len(s) + 1
    ELSE CHOOSE i \in commas : Cardinality({j \in commas : j < i}) = k - 1

\* the text between consecutive cuts, trimmed
Segments(s) ==
    [k \in 1..(Cardinality(TopLevelCommas(s)) + 1) |->
        Strip(Slice(s, Cut(s, k - 1) + 1, Cut(s, k) - 1))]

\* some character, whitespace included, follows the last top-level comma
\* (or starts the input when it has none)
HasTail(s) == Cut(s, Cardinality(TopLevelCommas(s))) < Len(s)

C3_AsStated ==
    (pc = "split_done" /\ Balanced(arg)) => ret = Segments(arg)

\* C3: for balanced input the expressions are the trimmed substrings between
\* consecutive top-level commas, in order, except that a zero-length
\* substring after the last top-level comma is not emitted; a comma inside
\* parentheses never ends an expression.
C3_TopLevelSegments ==
    (pc = "split_done" /\ Balanced(arg)) =>
        ret = IF HasTail(arg) THEN Segments(arg)
              ELSE SubSeq(Segments(arg), 1, Len(Segments(arg)) - 1)

\* the example of the claim: four expressions, the comma in (c,d) kept
C3_Witness ==
    /\ pc = "split_done"
    /\ arg = "a,b,(c,d),e"
    /\ ret = <<"a", "b", "(c,d)", "e">>

(***************************************************************************)
(* Properties of infer_field_type and map_data_type (InferSpec).           *)
(***************************************************************************)
\* the rules of the call that match the field, by their place in the list
MatchingRules ==
    {i \in 1..Len(arg.rules) :
        RuleMatches(arg.rules[i], Lower(arg.name), Lower(arg.comment))}

\* rule i comes before rule j: lower priority number, or the same number and
\* an earlier place in the caller's list
Before(i, j) ==
    \/ PriorityOf(arg.rules[i]) < PriorityOf(arg.rules[j])
    \/ PriorityOf(arg.rules[i]) = PriorityOf(arg.rules[j]) /\ i < j

Winner == CHOOSE i \in MatchingRules : \A j \in MatchingRules \ {i} : Before(i, j)

RECURSIVE WithoutSpaces(_)
WithoutSpaces(s) ==
    LET p == Find(s, " ") IN
    IF p = 0 THEN s ELSE Take(s, p - 1) \o WithoutSpaces(Drop(s, p))

\* the decimal keyword of the dialect with p and s, spacing aside
DecimalOf(database, p, s) ==
    (IF database = "clickhouse" THEN "Decimal" ELSE "DECIMAL")
        \o "(" \o IntToStr(p) \o "," \o IntToStr(s) \o ")"

\* C4 as stated: a matching DECIMAL rule with precision p >= 1 and scale
\* s >= 0 renders with exactly that p and s in every dialect with
\* parameterized decimals, never with the fallback 24/6.
C4_AsStated ==
    (/\ pc = "map_done"
     /\ MatchingRules # {}
     /\ arg.rules[Winner].dataType = <<"DECIMAL">>
     /\ arg.rules[Winner].precision # <<>>
     /\ arg.rules[Winner].scale # <<>>)
    => WithoutSpaces(ret.data_type)
         = DecimalOf(arg.database, arg.rules[Winner].precision[1],
                     arg.rules[Winner].scale[1])

\* C5: the rules are tried by ascending priority (999 when a rule has none),
\* rules of equal priority in the caller's order; the result is the dataType,
\* precision, scale and length of the first rule in that order with a
\* matching keyword, and the fallback chain decides only when no rule
\* matches.
C5_FirstMatchByPriority ==
    pc \in {"infer_done", "map_done"} =>
        IF MatchingRules # {}
        THEN ret.type_info = [type |-> arg.rules[Winner].dataType[1],
                              precision |-> arg.rules[Winner].precision,
                              scale |-> arg.rules[Winner].scale,
                              length |-> arg.rules[Winner].length]
        ELSE ret.type_info = FallbackType(Lower(arg.name), Lower(arg.comment))

\* two matching rules of equal priority, and a matching rule of lower
\* priority number placed after one of higher number
C5_Witness ==
    /\ pc = "infer_done"
    /\ Len(arg.rules) = 2
    /\ MatchingRules = {1, 2}
    /\ PriorityOf(arg.rules[1]) > PriorityOf(arg.rules[2])
    /\ ret.type_info.type = arg.rules[2].dataType[1]
    /\ ret.type_info.type # arg.rules[1].dataType[1]

(***************************************************************************)
(* Properties of parse_sql_fields (ParseSpec).                             *)
(***************************************************************************)
\* C1 as stated: in SELECT org_id, credit_amt AS amt -- comment FROM t the
\* aliased field is named by its alias and has the text of the line comment
\* as comment, and the field without a comment of its own has its resolved
\* name as comment, in this order.
C1_AsStated ==
    pc = "parse_done" =>
        \A sep \in SELECT_SEPS :
            arg = Statement("SELECT ", <<"org_id", "credit_amt AS amt -- comment">>,
                            sep, "\nFROM t")
            => /\ ret.ok
               /\ Len(ret.fields) = 2
               /\ ret.fields[1].name = "org_id"
               /\ ret.fields[1].comment = "org_id"
               /\ ret.fields[2].name = "amt"
               /\ ret.fields[2].comment = "comment"

\* C6: the strategies are tried in the order SELECT...FROM, SELECT-only, bare
\* field list; the result is that of the first one with at least one field,
\* and the call fails with the cannot-parse error exactly when all three
\* yield no field.
C6_FirstStrategyWins ==
    pc = "parse_done" =>
        LET sql == Strip(arg)
            from_fields == try_parse_select_from(sql)
            select_fields == try_parse_select_fields(sql)
            list_fields == try_parse_field_list(sql)
        IN  /\ from_fields # <<>> => ret = Returned(from_fields)
            /\ (from_fields = <<>> /\ select_fields # <<>>) => ret = Returned(select_fields)
            /\ (from_fields = <<>> /\ select_fields = <<>> /\ list_fields # <<>>)
                   => ret = Returned(list_fields)
            /\ (from_fields = <<>> /\ select_fields = <<>> /\ list_fields = <<>>)
                   <=> ret = Raised(MSG_UNPARSABLE)

\* the first two strategies both yield fields and differ: the first one's
\* result is returned
C6_Witness ==
    /\ pc = "parse_done"
    /\ arg = "SELECT a, b FROM t"
    /\ try_parse_select_fields(arg) # <<>>
    /\ try_parse_select_fields(arg) # try_parse_select_from(arg)
    /\ ret = Returned(try_parse_select_from(arg))

(***************************************************************************)
(* Properties of the request handler (Spec).                               *)
(***************************************************************************)
Answered == pc = "responded" /\ request.path = API_PATH

RequestSql == Strip(DictGet(request.data, "sql", ""))

Requested == DictGet(request.data, "databaseTypes", <<"spark">>)

RequestedRules == DictGet(request.data, "rulesByDatabase", <<>>)

IsKnown(d) == d \in KNOWN_DATABASES

\* the requested identifiers that have an entry, repetitions kept
KnownRequested == SelectSeq(Requested, IsKnown)

\* no strategy gets a field out of the statement
NothingRecognized(sql) ==
    /\ try_parse_select_from(sql) = <<>>
    /\ try_parse_select_fields(sql) = <<>>
    /\ try_parse_field_list(sql) = <<>>

\* the statement has expressions and parse_field_expression drops every one
\* of them in every strategy
AllFiltered(sql) == FieldListExpressions(sql) # <<>> /\ NothingRecognized(sql)

\* C7 as stated: when every expression of the statement is filtered out, the
\* request ends in the no-fields error, which is not the cannot-parse error.
C7_AsStated ==
    (Answered /\ RequestSql # "" /\ AllFiltered(RequestSql)) =>
        /\ response.code = 400
        /\ response.body = [error |-> MSG_NO_FIELDS]
        /\ MSG_NO_FIELDS # MSG_UNPARSABLE

\* C7: when every expression of the statement is filtered out, the request
\* ends in the cannot-parse error (status 400); no request ends in the
\* no-fields error.
C7_FilteredIsUnparsable ==
    /\ (Answered /\ RequestSql # "" /\ AllFiltered(RequestSql)) =>
          response = [code |-> 400, body |-> [error |-> MSG_UNPARSABLE]]
    /\ Answered => response.body # [error |-> MSG_NO_FIELDS]

\* the statement whose only expression is a nested SELECT has been answered
C7_Witness ==
    /\ Answered
    /\ RequestSql = "SELECT (SELECT 1) FROM t"
    /\ AllFiltered(RequestSql)
    /\ response.code = 400

\* C8 as stated: the single shape when exactly one dialect is requested, else
\* the collection with one entry per requested dialect.
C8_AsStated ==
    (Answered /\ response.code = 200) =>
        IF Len(Requested) = 1
        THEN DOMAIN response.body = {"ddl"}
        ELSE /\ DOMAIN response.body = {"ddls"}
             /\ Len(response.body.ddls) = Len(Requested)

\* C8: the single shape when exactly one requested identifier has an entry in
\* DATABASE_CONFIGS (repetitions counted), else the collection, with one
\* entry per requested identifier that has an entry.
C8_ShapeByKnownCount ==
    (Answered /\ response.code = 200) =>
        IF Len(KnownRequested) = 1
        THEN DOMAIN response.body = {"ddl"}
        ELSE /\ DOMAIN response.body = {"ddls"}
             /\ Len(response.body.ddls) = Len(KnownRequested)

\* two identifiers requested, one of them unknown: the single shape
C8_Witness ==
    /\ Answered
    /\ Requested = <<"spark", "oracle">>
    /\ response.code = 200
    /\ DOMAIN response.body = {"ddl"}

\* the DDL texts of a result, whichever its shape
DdlTexts(body) ==
    IF "ddl" \in DOMAIN body THEN <<body.ddl>>
    ELSE [i \in 1..Len(body.ddls) |-> body.ddls[i].ddl]

\* C9: a DDL is produced for each requested identifier that has an entry in
\* DATABASE_CONFIGS, in request order; an identifier without an entry gets no
\* DDL and the request still succeeds.
C9_KnownInRequestOrder ==
    (pc = "responded" /\ request.path = API_PATH /\ RequestSql # ""
        /\ ~NothingRecognized(RequestSql)) =>
        /\ response.code = 200
        /\ DdlTexts(response.body)
             = [i \in 1..Len(KnownRequested) |->
                   generate_ddl(fields, RequestedRules, KnownRequested[i])]
        /\ "ddls" \in DOMAIN response.body =>
              \A i \in 1..Len(KnownRequested) :
                  response.body.ddls[i].databaseType = KnownRequested[i]

\* an unknown identifier ahead of two known ones
C9_Witness ==
    /\ Answered
    /\ Len(Requested) = MaxTypes
    /\ Requested[1] = "oracle"
    /\ Requested[MaxTypes] = "postgresql"
    /\ response.code = 200
    /\ Len(DdlTexts(response.body)) = MaxTypes - 1

\* C10 as stated: with databaseTypes absent or an empty list the response
\* carries the one DDL of the default dialect, spark.
C10_AsStated ==
    (Answered /\ RequestSql # "" /\ ~NothingRecognized(RequestSql)
        /\ DictGet(request.data, "databaseTypes", <<>>) = <<>>) =>
        /\ response.code = 200
        /\ response.body = [ddl |-> generate_ddl(fields, RequestedRules, "spark")]

(***************************************************************************)
(* map_data_type on its own, for every dialect of DATABASE_CONFIGS.        *)
(***************************************************************************)
ABSTRACT_TYPES ==
    {"STRING", "DATE", "TIMESTAMP", "DECIMAL", "VARCHAR", "CHAR", "FLOAT", "DOUBLE"}

\* type tokens a rule's dataType can carry: the abstract types, in upper and
\* lower case, and tokens outside them
MAP_TOKENS ==
    ABSTRACT_TYPES
        \cup {"string", "Decimal", "BIGINT", "int", "Boolean", "json", "DATETIME",
              "FLOAT8", "DOUBLE PRECISION", "DECIMAL(10,2)", "CHARACTER"}

MAP_PRECISIONS == {<<>>, <<0>>, <<10>>}
MAP_SCALES == {<<>>, <<0>>, <<2>>}
MAP_LENGTHS == {<<>>, <<0>>, <<64>>}

MapInputs ==
    [type_info : [type : MAP_TOKENS, precision : MAP_PRECISIONS,
                  scale : MAP_SCALES, length : MAP_LENGTHS],
     database : KNOWN_DATABASES]

MapTypeInit ==
    /\ pc = "maptype_call"
    /\ arg \in MapInputs
    /\ ret = <<>>
    /\ request = Idle /\ fields = <<>> /\ response = Idle

MapTypeCall ==
    /\ pc = "maptype_call"
    /\ ret' = map_data_type(arg.type_info, arg.database)
    /\ pc' = "maptype_done"
    /\ UNCHANGED <<arg, request, fields, response>>

MapTypeNext == MapTypeCall

MapTypeSpec == MapTypeInit /\ [][MapTypeNext]_vars

\* C11 as stated: a token that is none of the eight abstract types comes
\* back upper-cased and otherwise unchanged, in every dialect, whatever
\* precision, scale and length go with it.
C11_AsStated ==
    (pc = "maptype_done" /\ Upper(arg.type_info.type) \notin ABSTRACT_TYPES)
        => ret = Upper(arg.type_info.type)

\* C11: a token that, upper-cased, is none of the eight abstract types and
\* does not start with DECIMAL, FLOAT or DOUBLE comes back upper-cased and
\* otherwise unchanged, in every dialect, whatever precision, scale and
\* length go with it.
C11_UnknownPassesThrough ==
    (/\ pc = "maptype_done"
     /\ Upper(arg.type_info.type) \notin ABSTRACT_TYPES
     /\ \A prefix \in {"DECIMAL", "FLOAT", "DOUBLE"} :
            ~StartsWith(Upper(arg.type_info.type), prefix))
        => ret = Upper(arg.type_info.type)

\* a lower-case token outside the abstract types, with precision, scale and
\* length, has been mapped for clickhouse
C11_Witness ==
    /\ pc = "maptype_done"
    /\ arg.database = "clickhouse"
    /\ arg.type_info = [type |-> "json", precision |-> <<10>>, scale |-> <<2>>,
                        length |-> <<64>>]
    /\ ret = "JSON"

\* C12: for each of the seven dialects and each of the eight abstract types,
\* with or without precision, scale and length, the result is a non-empty
\* string.
C12_TotalOnAbstractTypes ==
    (pc = "maptype_done" /\ arg.type_info.type \in ABSTRACT_TYPES)
        => Len(ret) > 0

\* DATE for postgresql, which no branch of the dialect names, has been mapped
C12_Witness ==
    /\ pc = "maptype_done"
    /\ arg.database = "postgresql"
    /\ arg.type_info.type = "DATE"
    /\ arg.type_info.scale = <<0>>
    /\ ret = "DATE"

(***************************************************************************)
(* generate_ddl and select_primary_key on their own.                       *)
(***************************************************************************)
MaxKeyFields == 3

KEY_NAMES == {"org_id", "cust_icode", "business_date", "ORG_ID", "valid", "a", "b"}

\* a field as parse_field_expression leaves it with no alias and no comment
PlainField(name) == [name |-> name, alias |-> <<>>, comment |-> name]

KeyFieldLists ==
    UNION {[1..n -> {PlainField(name) : name \in KEY_NAMES}] : n \in 1..MaxKeyFields}

DDL_DATABASES == {"spark", "mysql", "postgresql"}

\* fields with single quotes in their comments
QUOTED_FIELDS ==
    {[name |-> "a", alias |-> <<>>, comment |-> "it's"],
     [name |-> "amt", alias |-> <<"amt">>, comment |-> "'net' amount"],
     [name |-> "c", alias |-> <<>>, comment |-> "''"]}

QuotedFieldLists == UNION {[1..n -> QUOTED_FIELDS] : n \in 1..MaxKeyFields}

DdlInputs == [fields : KeyFieldLists \cup QuotedFieldLists, database : DDL_DATABASES]

DdlInit ==
    /\ pc = "ddl_call"
    /\ arg \in DdlInputs
    /\ ret = <<>>
    /\ request = Idle /\ fields = <<>> /\ response = Idle

DdlCall ==
    /\ pc = "ddl_call"
    /\ ret' = [pk |-> select_primary_key(arg.fields),
               ddl |-> generate_ddl(arg.fields, <<>>, arg.database)]
    /\ pc' = "ddl_done"
    /\ UNCHANGED <<arg, request, fields, response>>

DdlNext == DdlCall

DdlSpec == DdlInit /\ [][DdlNext]_vars

\* the least index of fs whose name satisfies Marked, 0 when there is none
FirstMarked(fs, Marked(_)) ==
    LET hits == {i \in 1..Len(fs) : Marked(fs[i].name)} IN
    IF hits = {} THEN 0 ELSE CHOOSE i \in hits : \A j \in hits : i <= j

\* the field the rule of C13 selects, given how "ends with" is read
KeyByMarkers(fs, Ends(_, _)) ==
    LET EndsWithIcode(n) == Ends(n, "icode")
        EndsWithId(n) == Ends(n, "id")
        icode == FirstMarked(fs, EndsWithIcode)
        id == FirstMarked(fs, EndsWithId)
    IN  IF icode > 0 THEN fs[icode].name
        ELSE IF id > 0 THEN fs[id].name
        ELSE fs[1].name

EndsAnyCase(n, marker) == EndsWith(Lower(n), marker)

DdlLines == SplitOn(ret.ddl, "\n")

KeyClause(key) == "   ,PRIMARY KEY (" \o key \o ")"

\* C13 as stated: the key is the first name ending with `icode`, else the
\* first ending with `id`, else the first field's name.
C13_AsStated ==
    pc = "ddl_done" => ret.pk = <<KeyByMarkers(arg.fields, EndsWith)>>

\* C13: for a non-empty field sequence the key is the name of the first field
\* whose name ends with `icode` in any letter case, else of the first whose
\* name ends with `id` in any letter case, else of the first field; it is
\* cust_icode for [org_id, cust_icode, business_date]; it is always the name
\* of a given field, and it is the key a dialect with a primary key prints.
C13_KeyByMarkersAnyCase ==
    pc = "ddl_done" =>
        /\ ret.pk = <<KeyByMarkers(arg.fields, EndsAnyCase)>>
        /\ \E i \in 1..Len(arg.fields) : ret.pk = <<arg.fields[i].name>>
        /\ [i \in 1..Len(arg.fields) |-> arg.fields[i].name]
               = <<"org_id", "cust_icode", "business_date">>
           => ret.pk = <<"cust_icode">>
        /\ DATABASE_CONFIGS[arg.database].add_pk
           => \E k \in 1..Len(DdlLines) : DdlLines[k] = KeyClause(ret.pk[1])

\* the fields of the example have been rendered for the dialect with a key
C13_Witness ==
    /\ pc = "ddl_done"
    /\ arg.database = "mysql"
    /\ [i \in 1..Len(arg.fields) |-> arg.fields[i].name]
           = <<"org_id", "cust_icode", "business_date">>
    /\ ret.pk = <<"cust_icode">>
    /\ DdlLines[5] = KeyClause("cust_icode")

LinesWith(lines, text) == {k \in 1..Len(lines) : Contains(lines[k], text)}

ColumnComment(name) == "COMMENT ON COLUMN " \o TABLE_NAME \o "." \o name \o " IS '"

\* C14: for a dialect with separate comments and n fields the DDL closes the
\* column list, puts `;` after it, then has exactly one COMMENT ON TABLE
\* statement and after it exactly n COMMENT ON COLUMN statements, the i-th
\* for the i-th field.
C14_SeparateComments ==
    (pc = "ddl_done" /\ DATABASE_CONFIGS[arg.database].comment = "SEPARATE") =>
        LET n == Len(arg.fields)
            lines == DdlLines
            close == Len(lines) - n - 3
        IN  /\ close > n
            /\ lines[close] = ")"
            /\ lines[close + 1] = ";"
            /\ LinesWith(lines, "COMMENT ON TABLE") = {close + 3}
            /\ LinesWith(lines, "COMMENT ON COLUMN") = (close + 4)..(close + 3 + n)
            /\ \A i \in 1..n :
                   StartsWith(lines[close + 3 + i], ColumnComment(arg.fields[i].name))

\* the fields of `SELECT a, b FROM t` have been rendered for postgresql
C14_Witness ==
    /\ pc = "ddl_done"
    /\ arg.database = "postgresql"
    /\ [i \in 1..Len(arg.fields) |-> arg.fields[i].name] = <<"a", "b">>
    /\ Len(DdlLines) = 9
    /\ StartsWith(DdlLines[8], ColumnComment("a"))
    /\ StartsWith(DdlLines[9], ColumnComment("b"))

\* the keywords of a regex rule that re.compile accepts
RECURSIVE WellFormedOnly(_)
WellFormedOnly(keywords) ==
    IF keywords = <<>> THEN <<>>
    ELSE (IF RegexMalformed(Head(keywords)) THEN <<>> ELSE <<Head(keywords)>>)
         \o WellFormedOnly(Tail(keywords))

\* the rules with every malformed keyword of a regex rule taken out
WithoutMalformed(rules) ==
    [i \in 1..Len(rules) |->
        IF rules[i].matchType = <<"regex">> /\ rules[i].keywords # <<>>
        THEN [rules[i] EXCEPT !.keywords = <<WellFormedOnly(rules[i].keywords[1])>>]
        ELSE rules[i]]

HasMalformed(rules) == WithoutMalformed(rules) # rules

\* C15: a rule set with malformed regex keywords gives every field the type
\* it gives with those keywords taken out of their rules: such a keyword is
\* a non-match, and the keywords after it, the rules after it and the
\* default rules are still tried.
C15_MalformedIsNonMatch ==
    (pc = "infer_done" /\ HasMalformed(arg.rules))
        => ret.type_info
               = infer_field_type(arg.name, arg.comment, WithoutMalformed(arg.rules))

\* a name was matched by the keyword that follows a malformed one
C15_Witness ==
    /\ pc = "infer_done"
    /\ arg.name = "credit_amt"
    /\ Len(arg.rules) = 1
    /\ arg.rules[1].keywords = << <<"(", "amt$">> >>
    /\ ret.type_info.type = "FLOAT"

\* C16: an input with no SELECT token that is a comma-separated list of n
\* plain identifiers gives exactly n fields in input order, each named by
\* its identifier, without alias and with its own name as comment.
C16_AsStated ==
    pc = "parse_done" =>
        \A ids \in SeqsOver(BARE_IDENTIFIERS, MaxBare) \ {<<>>} :
            (/\ \E sep \in BARE_SEPS : arg = Join(ids, sep)
             /\ WordSearch(Upper(arg), "SELECT") = 0)
                => ret = Returned([i \in 1..Len(ids) |-> PlainField(ids[i])])

\* the list of the example has been parsed into its three fields
C16_ExampleParsed ==
    /\ pc = "parse_done"
    /\ arg = "a, b, c"
    /\ ret = Returned(<<PlainField("a"), PlainField("b"), PlainField("c")>>)

\* C18: a SELECT clause with one un-aliased field per line, each line ending
\* in a comment, gives every field the comment of its own line, with the
\* comma before the field or after the field of the line above.
C18_AsStated ==
    pc = "parse_done" =>
        \A names \in DistinctNames(LINE_NAMES, MaxItems), style \in COMMA_STYLES :
            arg = CommentedLines(names, style)
                => ret = Returned([i \in 1..Len(names) |->
                              [name |-> names[i], alias |-> <<>>, comment |-> LineNote(i)]])

\* with the comma before the field each field has the comment of its line
C18_LeadingCommaParsed ==
    /\ pc = "parse_done"
    /\ arg = CommentedLines(<<"a", "b">>, "leading")
    /\ ret = Returned(<<[name |-> "a", alias |-> <<>>, comment |-> LineNote(1)],
                        [name |-> "b", alias |-> <<>>, comment |-> LineNote(2)]>>)

\* the text after the first SELECT keyword (lines 90-91)
ClauseAfterSelect(sql) == Strip(Drop(sql, WordSearch(sql, "SELECT") + 5))

\* the clause cut at the clause keyword that occurs at the least position
TruncateAtEarliest(select_clause) ==
    LET at == {WordSearch(select_clause, CLAUSE_KEYWORDS[k]) :
                   k \in 1..Len(CLAUSE_KEYWORDS)} \ {0}
    IN  IF at = {} THEN select_clause
        ELSE Strip(Take(select_clause, Min(at) - 1))

\* C19: when the SELECT-only strategy decides, its fields are those of the
\* text after SELECT cut at the clause keyword (WHERE, GROUP BY, ORDER BY,
\* HAVING, LIMIT, UNION; any case, whole word) that occurs earliest in the
\* text, whatever the order in which the keywords are listed.
C19_AsStated ==
    pc = "parse_done" =>
        LET sql == Strip(arg) IN
        (/\ WordSearch(sql, "SELECT") > 0
         /\ try_parse_select_from(sql) = <<>>
         /\ parse_select_clause(TruncateAtEarliest(ClauseAfterSelect(sql))) # <<>>)
            => ret = Returned(parse_select_clause(
                                  TruncateAtEarliest(ClauseAfterSelect(sql))))

\* a statement whose clauses come in the order of the keyword list is cut
\* at its first clause
C19_ListOrderParsed ==
    /\ pc = "parse_done"
    /\ arg = "SELECT a, b WHERE c = 1 ORDER BY c"
    /\ ret = Returned(<<PlainField("a"), PlainField("b")>>)

HasSelectKeyword(sql) == WordSearch(sql, "SELECT") > 0

\* the bare field list decided: both SELECT strategies gave no field
FromBareList(sql) ==
    /\ try_parse_select_from(sql) = <<>>
    /\ try_parse_select_fields(sql) = <<>>
    /\ try_parse_field_list(sql) # <<>>

\* C20 as stated: for an input that contains a SELECT keyword the returned
\* fields are those of the SELECT...FROM or of the SELECT-only strategy, or
\* the call fails.
C20_AsStated ==
    (pc = "parse_done" /\ HasSelectKeyword(Strip(arg)) /\ ret.ok)
        => \/ ret.fields = try_parse_select_from(Strip(arg))
           \/ ret.fields = try_parse_select_fields(Strip(arg))

\* C20: for an input that contains a SELECT keyword the returned fields are
\* those of the SELECT...FROM or of the SELECT-only strategy when either
\* yields a field; when neither does they are those of the bare field list,
\* and the call fails only if that list yields none either.
C20_BareListAfterSelectStrategies ==
    (pc = "parse_done" /\ HasSelectKeyword(Strip(arg))) =>
        IF FromBareList(Strip(arg))
        THEN ret = Returned(try_parse_field_list(Strip(arg)))
        ELSE \/ ret.ok /\ ret.fields = try_parse_select_from(Strip(arg))
             \/ ret.ok /\ ret.fields = try_parse_select_fields(Strip(arg))
             \/ ret = Raised(MSG_UNPARSABLE)

\* an input with a SELECT keyword got its fields from the bare field list
C20_Witness ==
    /\ pc = "parse_done"
    /\ arg = "a,SELECT"
    /\ FromBareList(arg)
    /\ ret = Returned(<<PlainField("a")>>)

(***************************************************************************)
(* Requests served concurrently.  ThreadedHTTPServer starts one thread per *)
(* request and each thread runs do_POST on a handler object of its own;    *)
(* DATABASE_CONFIGS and DATABASE_LABELS are the module's globals, shared   *)
(* by all threads.  Here pc, request, fields and response are indexed by   *)
(* thread, arg holds the globals and ret[t] is the request as the client   *)
(* of thread t sent it.                                                    *)
(***************************************************************************)
MaxThreads == 2

Threads == 1..MaxThreads

\* every thread shares one set of handler locals
Slot_Shared(t) == 1

\* where the locals of the handler run by thread t live: a do_POST call's
\* data, fields and result belong to that call
Slot(t) == t

CONC_RULES ==
    ("spark" :> << Rule(<< <<"amt">> >>, <<"contains">>, <<"name">>,
                        <<"DECIMAL">>, <<1>>, <<10>>, <<0>>, <<>>) >>)

ConcRequests ==
    [path : {API_PATH},
     data : {("sql" :> "a, b") @@ ("rulesByDatabase" :> <<>>),
             ("sql" :> "SELECT org_id,\ncredit_amt AS amt -- comment\nFROM t")
                 @@ ("databaseTypes" :> <<"mysql", "postgresql">>)
                 @@ ("rulesByDatabase" :> CONC_RULES),
             ("sql" :> "SELECT credit_amt FROM t")
                 @@ ("databaseTypes" :> <<"spark">>)
                 @@ ("rulesByDatabase" :> CONC_RULES),
             ("sql" :> "SELECT (SELECT 1) FROM t"),
             ("sql" :> "  ")}]
        \cup [path : {"/api/other"}, data : {("sql" :> "a, b")}]

Globals == [configs |-> DATABASE_CONFIGS, labels |-> DATABASE_LABELS]

ConcInit ==
    /\ pc = [t \in Threads |-> "idle"]
    /\ arg = Globals
    /\ ret = [t \in Threads |-> Idle]
    /\ request = [s \in Threads |-> Idle]
    /\ fields = [s \in Threads |-> <<>>]
    /\ response = [s \in Threads |-> Idle]

ConcReceive(t, req) ==
    /\ pc[t] = "idle"
    /\ pc' = [pc EXCEPT ![t] = "received"]
    /\ request' = [request EXCEPT ![Slot(t)] = req]
    /\ ret' = [ret EXCEPT ![t] = req]
    /\ UNCHANGED <<arg, fields, response>>

\* lines 523-526
ConcNotFound(t) ==
    /\ pc[t] = "received"
    /\ request[Slot(t)].path # API_PATH
    /\ response' = [response EXCEPT
                       ![Slot(t)] = [code |-> 404, body |-> [raw |-> "Not Found"]]]
    /\ pc' = [pc EXCEPT ![t] = "responded"]
    /\ UNCHANGED <<arg, ret, request, fields>>

\* lines 499-502
ConcRejectEmptySql(t) ==
    /\ pc[t] = "received"
    /\ request[Slot(t)].path = API_PATH
    /\ Strip(DictGet(request[Slot(t)].data, "sql", "")) = ""
    /\ response' = [response EXCEPT
                       ![Slot(t)] = [code |-> 400, body |-> [error |-> MSG_NO_SQL]]]
    /\ pc' = [pc EXCEPT ![t] = "responded"]
    /\ UNCHANGED <<arg, ret, request, fields>>

\* lines 504-507 and 519-520 for the outcome of parse_sql_fields
ConcAnswerParsed(t, parsed) ==
    IF ~parsed.ok
    THEN /\ response' = [response EXCEPT
                            ![Slot(t)] = [code |-> 400, body |-> [error |-> parsed.error]]]
         /\ pc' = [pc EXCEPT ![t] = "responded"]
         /\ UNCHANGED fields
    ELSE IF parsed.fields = <<>>
    THEN /\ response' = [response EXCEPT
                            ![Slot(t)] = [code |-> 400, body |-> [error |-> MSG_NO_FIELDS]]]
         /\ pc' = [pc EXCEPT ![t] = "responded"]
         /\ fields' = [fields EXCEPT ![Slot(t)] = parsed.fields]
    ELSE /\ fields' = [fields EXCEPT ![Slot(t)] = parsed.fields]
         /\ pc' = [pc EXCEPT ![t] = "parsed"]
         /\ UNCHANGED response

ConcParseFields(t) ==
    /\ pc[t] = "received"
    /\ request[Slot(t)].path = API_PATH
    /\ Strip(DictGet(request[Slot(t)].data, "sql", "")) # ""
    /\ ConcAnswerParsed(t, parse_sql_fields(
                               Strip(DictGet(request[Slot(t)].data, "sql", ""))))
    /\ UNCHANGED <<arg, ret, request>>

\* lines 509-518
ConcGenerate(t) ==
    /\ pc[t] = "parsed"
    /\ response' =
           [response EXCEPT
               ![Slot(t)] =
                   [code |-> 200,
                    body |-> generate_multiple_ddls(
                                 fields[Slot(t)],
                                 DictGet(request[Slot(t)].data, "rulesByDatabase", <<>>),
                                 DictGet(request[Slot(t)].data, "databaseTypes",
                                         <<"spark">>))]]
    /\ pc' = [pc EXCEPT ![t] = "responded"]
    /\ UNCHANGED <<arg, ret, request, fields>>

\* the response is written and the thread ends
ConcFinish(t) ==
    /\ pc[t] = "responded"
    /\ pc' = [pc EXCEPT ![t] = "idle"]
    /\ ret' = [ret EXCEPT ![t] = Idle]
    /\ request' = [request EXCEPT ![Slot(t)] = Idle]
    /\ fields' = [fields EXCEPT ![Slot(t)] = <<>>]
    /\ response' = [response EXCEPT ![Slot(t)] = Idle]
    /\ UNCHANGED arg

ConcNext ==
    \E t \in Threads :
        \/ \E req \in ConcRequests : ConcReceive(t, req)
        \/ ConcNotFound(t)
        \/ ConcRejectEmptySql(t)
        \/ ConcParseFields(t)
        \/ ConcGenerate(t)
        \/ ConcFinish(t)

ConcSpec == ConcInit /\ [][ConcNext]_vars

\* what parse_sql_fields gives for the statement of a request
ParsedAlone(req) == parse_sql_fields(Strip(DictGet(req.data, "sql", "")))

\* the response to a request that is served with no other request in flight
ResponseAlone(req) ==
    IF req.path # API_PATH THEN [code |-> 404, body |-> [raw |-> "Not Found"]]
    ELSE IF Strip(DictGet(req.data, "sql", "")) = ""
    THEN [code |-> 400, body |-> [error |-> MSG_NO_SQL]]
    ELSE IF ~ParsedAlone(req).ok
    THEN [code |-> 400, body |-> [error |-> ParsedAlone(req).error]]
    ELSE IF ParsedAlone(req).fields = <<>>
    THEN [code |-> 400, body |-> [error |-> MSG_NO_FIELDS]]
    ELSE [code |-> 200,
          body |-> generate_multiple_ddls(
                       ParsedAlone(req).fields,
                       DictGet(req.data, "rulesByDatabase", <<>>),
                       DictGet(req.data, "databaseTypes", <<"spark">>))]

\* C17: however the steps of concurrently served requests interleave, the
\* response to each request is the one it gets when served alone (so two
\* requests with the same content get the same text), the fields and the
\* rule sets a request is served from are still its own after generation,
\* and DATABASE_CONFIGS and DATABASE_LABELS stay as loaded.
C17_RequestsIsolated ==
    /\ arg = Globals
    /\ \A t \in Threads :
           /\ pc[t] = "responded" => response[Slot(t)] = ResponseAlone(ret[t])
           /\ pc[t] \in {"parsed", "responded"} => request[Slot(t)] = ret[t]
           /\ (pc[t] = "parsed" \/ (pc[t] = "responded" /\ response[Slot(t)].code = 200))
                  => fields[Slot(t)] = ParsedAlone(ret[t]).fields
           /\ \A u \in Threads :
                  (pc[t] = "responded" /\ pc[u] = "responded" /\ ret[t] = ret[u])
                      => response[Slot(t)] = response[Slot(u)]

\* one request has its DDL while another one, with other content, is between
\* parsing and generation
C17_Witness ==
    /\ pc[1] = "responded"
    /\ response[Slot(1)].code = 200
    /\ pc[2] = "parsed"
    /\ ret[1] # ret[2]
    /\ fields[Slot(1)] # fields[Slot(2)]

\* the statement has nothing but commas and white space
OnlyCommasAndSpace(sql) ==
    \A i \in 1..Len(sql) : Ch(sql, i) = "," \/ IsSpace(Ch(sql, i))

\* C21: every field parse_sql_fields returns has a non-empty name, and an
\* input of commas and white space only fails with the cannot-parse error.
C21_AsStated ==
    pc = "parse_done" =>
        /\ ret.ok => \A i \in 1..Len(ret.fields) : ret.fields[i].name # ""
        /\ OnlyCommasAndSpace(arg) => ret = Raised(MSG_UNPARSABLE)

\* the text after the last comma, empty once trimmed, gave no field
C21_TrailingCommaParsed ==
    /\ pc = "parse_done"
    /\ arg = "a,"
    /\ ret = Returned(<<PlainField("a")>>)

\* the expression without a DISTINCT that is its leading token
LeadingDistinctRemoved(expr) ==
    IF DistinctAt(expr, 1) THEN Drop(expr, SkipSpaces(expr, 9) - 1) ELSE expr

\* C22: DISTINCT is removed from an expression only where it is the leading
\* token; anywhere else it stays in the name of the field.
C22_AsStated ==
    (pc = "parse_done" /\ arg \in DISTINCT_EXPRESSIONS)
        => ret = Returned(ParseStripped(arg, <<>>,
                                        ResolveAlias(LeadingDistinctRemoved(arg))))

\* a leading DISTINCT has been removed from the name
C22_LeadingDistinctParsed ==
    /\ pc = "parse_done"
    /\ arg = "DISTINCT a"
    /\ ret = Returned(<<PlainField("a")>>)

\* the last token of the expression counts as its alias
LastIsAlias(tokens) ==
    /\ Len(tokens) >= 2
    /\ \A op \in {"(", "+", "-", "*", "/", "="} : ~Contains(tokens[Len(tokens) - 1], op)

Unquoted(token) == StripChars(token, {"'", "\""})

AliasedField(alias) == [name |-> alias, alias |-> <<alias>>, comment |-> alias]

\* C23 as stated: without a trailing AS the last token, quotes stripped, is
\* the alias exactly when there are two tokens or more and the one before
\* it has none of ( + - * / =; the field is named by the alias when there
\* is one and by the whole expression, without alias, otherwise.
C23_AsStated ==
    (pc = "parse_done" /\ arg \in ALIAS_EXPRESSIONS) =>
        LET tokens == SplitWs(arg) IN
        ret = Returned(<<IF LastIsAlias(tokens)
                         THEN AliasedField(Unquoted(tokens[Len(tokens)]))
                         ELSE PlainField(arg)>>)

\* C23: as stated, except that when the alias is empty once its quotes are
\* stripped the field is named by the expression without its last token.
C23_ImplicitAlias ==
    (pc = "parse_done" /\ arg \in ALIAS_EXPRESSIONS) =>
        LET tokens == SplitWs(arg) IN
        ret = Returned(<<IF ~LastIsAlias(tokens) THEN PlainField(arg)
                         ELSE IF Unquoted(tokens[Len(tokens)]) # ""
                         THEN AliasedField(Unquoted(tokens[Len(tokens)]))
                         ELSE [name |-> Join(SubSeq(tokens, 1, Len(tokens) - 1), " "),
                               alias |-> <<"">>,
                               comment |-> Join(SubSeq(tokens, 1, Len(tokens) - 1), " ")]>>)

\* an expression with a quoted last token got the token, unquoted, as alias
\* and as name
C23_Witness ==
    /\ pc = "parse_done"
    /\ arg = "t.a 'x'"
    /\ LastIsAlias(SplitWs(arg))
    /\ ret = Returned(<<AliasedField("x")>>)

(***************************************************************************)
(* infer_field_type where the default rules decide.                        *)
(***************************************************************************)
CHAIN_NAMES ==
    {"cytp", "type_code", "code_date", "business_date", "Business_Date",
     "birthday_date", "update_time", "org_id", "full_name", "is_valid",
     "overdue_days", "weekday", "holiday", "credit_amt", "item_qty", "x",
     "date_" \o CJK_CODE, "amt_flag", "cust_amt", "time_org"}

CHAIN_COMMENTS == {"x", "total amount", CJK_CURRENCY_CODE}

\* no rules, a rule no name satisfies, a rule some names satisfy
CHAIN_RULES ==
    { <<>>,
      << Rule(<< <<"zz">> >>, <<"contains">>, <<"name">>, <<"BIGINT">>, <<1>>, <<>>, <<>>, <<>>) >>,
      << Rule(<< <<"amt">> >>, <<"contains">>, <<"name">>, <<"DECIMAL">>, <<0>>, <<10>>, <<2>>, <<>>) >> }

ChainInputs ==
    [name : CHAIN_NAMES, comment : CHAIN_COMMENTS, rules : CHAIN_RULES,
     database : {"spark", "clickhouse"}]

ChainInit ==
    /\ pc = "infer_call"
    /\ arg \in ChainInputs
    /\ ret = <<>>
    /\ request = Idle /\ fields = <<>> /\ response = Idle

ChainSpec == ChainInit /\ [][InferNext]_vars

\* the rungs in the order of the claim, for a lower-cased name; currency
\* tells whether the currency rung is satisfied
Rungs(name, currency) ==
    << [hit |-> currency, type |-> PlainType("STRING")],
       [hit |-> ContainsAny(name, {"mode", "code", "icode", CJK_CODE, CJK_ENCODING}),
        type |-> PlainType("STRING")],
       [hit |-> ContainsAny(name, {"date", CJK_DATE})
                    /\ ~ContainsAny(name, {"day", "days"}),
        type |-> PlainType("DATE")],
       [hit |-> ContainsAny(name, {"time", "timestamp", CJK_TIME}),
        type |-> PlainType("TIMESTAMP")],
       [hit |-> ContainsAny(name, {"org", "trcl", "cust", "stff", "user", "dept"}),
        type |-> PlainType("STRING")],
       [hit |-> ContainsAny(name, {"_name", "_dscr", "_rmrk", "name",
                                   CJK_DESCRIPTION, CJK_REMARK}),
        type |-> PlainType("STRING")],
       [hit |-> ContainsAny(name, {"flag", CJK_MARK, CJK_WHETHER})
                    \/ StartsWith(name, "is_"),
        type |-> PlainType("STRING")],
       [hit |-> Contains(name, "days") \/ (Contains(name, "day") /\ name # "weekday"),
        type |-> DecimalDefault],
       [hit |-> ContainsAny(name, {"amt", "amount", "price", "ocy", "rcy", "scy",
                                   "elmn", "crdt", "totl", "ocpt",
                                   CJK_AMOUNT, CJK_PRICE}),
        type |-> DecimalDefault],
       [hit |-> ContainsAny(name, {"qty", "quantity", "cnt", "count", CJK_QUANTITY}),
        type |-> DecimalDefault] >>

\* the type of the first rung that is satisfied, STRING when none is
FirstRung(rungs) ==
    LET hits == {k \in 1..Len(rungs) : rungs[k].hit} IN
    IF hits = {} THEN PlainType("STRING") ELSE rungs[Min(hits)].type

CurrencyByName(name) ==
    name \in {"fcytp", "scytp", "cytp", "currency_type"}
        \/ Contains(name, CJK_CURRENCY_CODE)

NoRuleMatches ==
    \A i \in 1..Len(arg.rules) : ~RuleMatches(arg.rules[i], Lower(arg.name), Lower(arg.comment))

\* what the claim derives from the order of the rungs
ChainConsequences ==
    /\ (ContainsAny(Lower(arg.name), {"mode", "code", "icode", CJK_CODE, CJK_ENCODING})
        /\ ContainsAny(Lower(arg.name), {"date", CJK_DATE}))
           => ret.type_info.type = "STRING"
    /\ (ContainsAny(Lower(arg.name), {"date", CJK_DATE})
        /\ ContainsAny(Lower(arg.name), {"day", "days"}))
           => ret.type_info.type # "DATE"
    /\ Lower(arg.name) = "weekday" => ret.type_info.type # "DECIMAL"

\* C24 as stated: when no caller rule matches, the type is that of the first
\* rung, in the order currency, code, date without day, time,
\* organizational, descriptive name, flag, day count, amount, quantity,
\* whose marker the lower-cased name satisfies, and STRING when none does.
C24_AsStated ==
    (pc = "infer_done" /\ NoRuleMatches) =>
        /\ ret.type_info = FirstRung(Rungs(Lower(arg.name), CurrencyByName(Lower(arg.name))))
        /\ ChainConsequences

\* C24: as stated, with the currency rung satisfied by its marker in the
\* lower-cased name or in the lower-cased comment.
C24_FirstRungDecides ==
    (pc = "infer_done" /\ NoRuleMatches) =>
        /\ ret.type_info
               = FirstRung(Rungs(Lower(arg.name),
                                 CurrencyByName(Lower(arg.name))
                                     \/ Contains(Lower(arg.comment), CJK_CURRENCY_CODE)))
        /\ ChainConsequences

\* a name with a code marker and a date marker, under a rule that does not
\* match it, has been typed STRING
C24_Witness ==
    /\ pc = "infer_done"
    /\ arg.name = "code_date"
    /\ arg.rules # <<>>
    /\ NoRuleMatches
    /\ ret.type_info = PlainType("STRING")

\* the text with every single quote written twice
RECURSIVE Doubled(_)
Doubled(s) ==
    IF s = "" THEN ""
    ELSE (IF Ch(s, 1) = "'" THEN "''" ELSE Ch(s, 1)) \o Doubled(Drop(s, 1))

\* C25: in the DDL of every dialect, SEPARATE ones included, the lines after
\* the header are one column line per field in field order, the first
\* without a comma before the name and every later one with it, each ending
\* in COMMENT '<text>' with the single quotes of the field's comment
\* doubled; the line after them is not a column line; and each COMMENT ON
\* COLUMN statement carries the comment doubled the same way.
C25_ColumnLines ==
    pc = "ddl_done" =>
        LET n == Len(arg.fields)
            lines == DdlLines
        IN  /\ Len(lines) >= n + 2
            /\ \A i \in 1..n :
                   /\ StartsWith(lines[i + 1],
                                 (IF i = 1 THEN "    " ELSE "   ,") \o arg.fields[i].name \o " ")
                   /\ EndsWith(lines[i + 1],
                               " COMMENT '" \o Doubled(arg.fields[i].comment) \o "'")
            /\ lines[n + 2] = ")" \/ StartsWith(lines[n + 2], "   ,PRIMARY KEY (")
            /\ DATABASE_CONFIGS[arg.database].comment = "SEPARATE" =>
                   \A i \in 1..n :
                       lines[Len(lines) - n + i]
                           = ColumnComment(arg.fields[i].name)
                                 \o Doubled(arg.fields[i].comment) \o "';"

\* fields with quotes in their comments have been rendered for the dialect
\* with separate comments
C25_Witness ==
    /\ pc = "ddl_done"
    /\ arg.database = "postgresql"
    /\ Len(arg.fields) = 2
    /\ arg.fields[1].comment = "it's"
    /\ arg.fields[2].comment = "'net' amount"
    /\ EndsWith(DdlLines[2], " COMMENT 'it''s'")
    /\ StartsWith(DdlLines[3], "   ,amt ")
    /\ EndsWith(DdlLines[3], " COMMENT '''net'' amount'")
    /\ DdlLines[Len(DdlLines)] = ColumnComment("amt") \o "''net'' amount';"

====
